---- MODULE Spec2Model ----
(***************************************************************************)
(* Analytics Assistant: the schema registry loaded at startup, the request *)
(* handlers of the HTTP surface, and the column matcher with its           *)
(* recommendation engine.                                                  *)
(*                                                                         *)
(* Text is a sequence of one-character strings, so that sorting,           *)
(* lower-casing, splitting and substring search are computed the way       *)
(* Python computes them.  An Optional value is a sequence of length at     *)
(* most one: None is <<>> and a present value v is <<v>>.  A dict with     *)
(* string keys is a record; a missing key is a missing field.              *)
(***************************************************************************)
EXTENDS Integers, Sequences, FiniteSets, Bags, TLC

\* ------------------------------------------------------------------------
\* Bounds of the model
\* ------------------------------------------------------------------------
MaxCols == 2      \* columns of a generated table schema
MaxReq == 2       \* length of a generated required_columns list
MaxOpt == 1       \* length of a generated optional_columns list
MaxInflight == 2  \* requests suspended at an await at the same time
MaxTickets == 2   \* rows the admin ticket table grows to

\* ------------------------------------------------------------------------
\* Python values
\* ------------------------------------------------------------------------
None == <<>>
Some(v) == <<v>>

Range(s) == {s[i] : i \in DOMAIN s}

\* All orders in which a set can be iterated (list(a_set)): Python fixes no
\* order for a set of str, it varies with the hash seed of the process.
IterationOrders(S) ==
  {s \in [1..Cardinality(S) -> S] : \A i, j \in 1..Cardinality(S) : s[i] = s[j] => i = j}

\* Code points of the ASCII letters, of the underscore and of the space: str
\* comparison, and so sorted(), is by code point.
ord ==
  ("_" :> 95) @@ (" " :> 32) @@
  [ A |-> 65, B |-> 66, C |-> 67, D |-> 68, E |-> 69, F |-> 70, G |-> 71,
    H |-> 72, I |-> 73, J |-> 74, K |-> 75, L |-> 76, M |-> 77, N |-> 78,
    O |-> 79, P |-> 80, Q |-> 81, R |-> 82, S |-> 83, T |-> 84, U |-> 85,
    V |-> 86, W |-> 87, X |-> 88, Y |-> 89, Z |-> 90 ] @@
  [ a |-> 97, b |-> 98, c |-> 99, d |-> 100, e |-> 101, f |-> 102, g |-> 103,
    h |-> 104, i |-> 105, j |-> 106, k |-> 107, l |-> 108, m |-> 109, n |-> 110,
    o |-> 111, p |-> 112, q |-> 113, r |-> 114, s |-> 115, t |-> 116, u |-> 117,
    v |-> 118, w |-> 119, x |-> 120, y |-> 121, z |-> 122 ]

\* a < b on str: the first differing character decides, a proper prefix is
\* smaller.
RECURSIVE str_lt(_, _)
str_lt(a, b) ==
  IF b = <<>> THEN FALSE
  ELSE IF a = <<>> THEN TRUE
  ELSE IF Head(a) = Head(b) THEN str_lt(Tail(a), Tail(b))
  ELSE ord[Head(a)] < ord[Head(b)]

\* sorted(list(a_set)) for a set of str: ascending, whatever the order the
\* set is iterated in.
RECURSIVE sorted(_)
sorted(S) ==
  IF S = {} THEN <<>>
  ELSE LET least == CHOOSE x \in S : \A y \in S \ {x} : str_lt(x, y)
       IN  <<least>> \o sorted(S \ {least})

\* str.lower() of one character, and of a str.
lower_char(c) ==
  IF c \in DOMAIN ord /\ ord[c] >= 65 /\ ord[c] <= 90
  THEN CHOOSE d \in DOMAIN ord : ord[d] = ord[c] + 32
  ELSE c

lower(s) == [i \in DOMAIN s |-> lower_char(s[i])]

\* s.replace("_", " ")
replace_underscores(s) == [i \in DOMAIN s |-> IF s[i] = "_" THEN " " ELSE s[i]]

\* s.split(): the maximal runs of non-whitespace characters, in order.
RECURSIVE split_from(_, _, _)
split_from(s, i, word) ==
  IF i > Len(s) THEN (IF word = <<>> THEN <<>> ELSE <<word>>)
  ELSE IF s[i] = " "
       THEN (IF word = <<>> THEN <<>> ELSE <<word>>) \o split_from(s, i + 1, <<>>)
       ELSE split_from(s, i + 1, Append(word, s[i]))

split(s) == split_from(s, 1, <<>>)

\* part in text, on str: part occurs as a contiguous run of text.
occurs_at(part, text, i) == \A k \in 1..Len(part) : text[i + k - 1] = part[k]

str_in(part, text) == \E i \in 1..(Len(text) - Len(part) + 1) : occurs_at(part, text, i)

\* sep.join(items)
RECURSIVE join(_, _)
join(sep, items) ==
  IF items = <<>> THEN <<>>
  ELSE IF Len(items) = 1 THEN items[1]
  ELSE items[1] \o sep \o join(sep, Tail(items))

\* str(n) for an int n >= 0
digit(n) == <<"0", "1", "2", "3", "4", "5", "6", "7", "8", "9">>[n + 1]

RECURSIVE str_of_int(_)
str_of_int(n) == IF n < 10 THEN <<digit(n)>> ELSE str_of_int(n \div 10) \o <<digit(n % 10)>>

\* [x for x in items if x in keep]
RECURSIVE filter_in(_, _)
filter_in(items, keep) ==
  IF items = <<>> THEN <<>>
  ELSE (IF Head(items) \in keep THEN <<Head(items)>> ELSE <<>>) \o filter_in(Tail(items), keep)

\* ------------------------------------------------------------------------
\* Column matcher (app/services/column_matcher.py)
\* ------------------------------------------------------------------------

\* The literal texts of the recommendation messages.  A character outside
\* ASCII (an emoji) is one element, written with its code point.
CONSIDER_USING ==
  <<"c", "o", "n", "s", "i", "d", "e", "r", " ", "u", "s", "i", "n", "g">>

TEXT_ALL_AVAILABLE ==
  <<" ", "A", "l", "l", " ", "r", "e", "q", "u", "i", "r", "e", "d", " ",
    "c", "o", "l", "u", "m", "n", "s", " ", "a", "r", "e", " ", "a", "v",
    "a", "i", "l", "a", "b", "l", "e", ".", " ", "A", "n", "a", "l", "y",
    "s", "i", "s", " ", "c", "a", "n", " ", "p", "r", "o", "c", "e", "e",
    "d", ".">>

TEXT_OPTIONAL ==
  <<" ", "O", "p", "t", "i", "o", "n", "a", "l", " ", "c", "o", "l", "u",
    "m", "n", "s", " ", "a", "v", "a", "i", "l", "a", "b", "l", "e", " ",
    "f", "o", "r", " ", "e", "n", "h", "a", "n", "c", "e", "d", " ", "a",
    "n", "a", "l", "y", "s", "i", "s", ":", " ">>

TEXT_MISSING ==
  <<" ", " ", "M", "i", "s", "s", "i", "n", "g", " ">>

TEXT_REQUIRED_COLUMNS ==
  <<" ", "r", "e", "q", "u", "i", "r", "e", "d", " ", "c", "o", "l", "u",
    "m", "n", "(", "s", ")", ":", " ">>

TEXT_PARTIAL ==
  <<" ", "P", "a", "r", "t", "i", "a", "l", " ", "a", "n", "a", "l", "y",
    "s", "i", "s", " ", "p", "o", "s", "s", "i", "b", "l", "e", " ", "w",
    "i", "t", "h", ":", " ">>

TEXT_NONE_AVAILABLE ==
  <<" ", "N", "o", " ", "r", "e", "q", "u", "i", "r", "e", "d", " ", "c",
    "o", "l", "u", "m", "n", "s", " ", "a", "v", "a", "i", "l", "a", "b",
    "l", "e", ".", " ", "A", "n", "a", "l", "y", "s", "i", "s", " ", "c",
    "a", "n", "n", "o", "t", " ", "p", "r", "o", "c", "e", "e", "d", " ",
    "w", "i", "t", "h", " ", "t", "h", "i", "s", " ", "t", "a", "b", "l",
    "e", ".">>

TEXT_FOR ==
  <<" ", "F", "o", "r", " ", "'">>

TEXT_CONSIDER_USING ==
  <<"'", ",", " ", "c", "o", "n", "s", "i", "d", "e", "r", " ", "u", "s",
    "i", "n", "g", ":", " ">>

TEXT_ADD_COLUMNS ==
  <<" ", "C", "o", "n", "s", "i", "d", "e", "r", " ", "a", "d", "d", "i",
    "n", "g", " ", "t", "h", "e", "s", "e", " ", "c", "o", "l", "u", "m",
    "n", "s", " ", "t", "o", " ", "y", "o", "u", "r", " ", "d", "a", "t",
    "a", "b", "a", "s", "e", " ", "s", "c", "h", "e", "m", "a", ".">>

COMMA_SPACE ==
  <<",", " ">>

\* The recommendation messages.  A message is kept as a record of its kind
\* and of the values formatted into it; text(r) is the str the code builds.
MsgAllAvailable == [kind |-> "all_available"]
MsgOptional(cols) == [kind |-> "optional_available", cols |-> cols]
MsgMissing(cols) == [kind |-> "missing", count |-> Len(cols), cols |-> cols]
MsgPartial(cols) == [kind |-> "partial", cols |-> cols]
MsgNoneAvailable == [kind |-> "none_available"]
MsgSuggest(missing, similar) == [kind |-> "suggest", missing |-> missing, cols |-> similar]
MsgAddColumns == [kind |-> "add_columns"]

text(r) ==
  CASE r.kind = "all_available" -> <<"U+2705">> \o TEXT_ALL_AVAILABLE
    [] r.kind = "optional_available" ->
         <<"U+1F4A1">> \o TEXT_OPTIONAL \o join(COMMA_SPACE, r.cols)
    [] r.kind = "missing" ->
         <<"U+26A0", "U+FE0F">> \o TEXT_MISSING \o str_of_int(r.count)
           \o TEXT_REQUIRED_COLUMNS \o join(COMMA_SPACE, r.cols)
    [] r.kind = "partial" -> <<"U+2705">> \o TEXT_PARTIAL \o join(COMMA_SPACE, r.cols)
    [] r.kind = "none_available" -> <<"U+274C">> \o TEXT_NONE_AVAILABLE
    [] r.kind = "suggest" ->
         <<"U+1F4A1">> \o TEXT_FOR \o r.missing \o TEXT_CONSIDER_USING
           \o join(COMMA_SPACE, r.cols)
    [] r.kind = "add_columns" -> <<"U+1F4DD">> \o TEXT_ADD_COLUMNS

\* Mutant: every part counts, also one of 1 or 2 characters.
part_matches_any_length(missing_parts, actual_lower) ==
  \E k \in DOMAIN missing_parts : str_in(missing_parts[k], actual_lower)

\* The inner loop of _find_similar_columns: some part longer than 2
\* characters occurs in the lower-cased column name.
part_matches(missing_parts, actual_lower) ==
  \E k \in DOMAIN missing_parts :
     Len(missing_parts[k]) > 2 /\ str_in(missing_parts[k], actual_lower)

\* The outer loop of _find_similar_columns: the column is appended once (the
\* break), in the order of actual_columns.
RECURSIVE similar_among(_, _)
similar_among(missing_parts, actual_columns) ==
  IF actual_columns = <<>> THEN <<>>
  ELSE (IF part_matches(missing_parts, lower(Head(actual_columns)))
        THEN <<Head(actual_columns)>> ELSE <<>>)
       \o similar_among(missing_parts, Tail(actual_columns))

_find_similar_columns(missing_col, actual_columns) ==
  similar_among(split(replace_underscores(lower(missing_col))), actual_columns)

\* similar[:3]
first_three(similar) == SubSeq(similar, 1, IF Len(similar) < 3 THEN Len(similar) ELSE 3)

\* The loop over missing_columns that appends one message for each missing
\* column with a non-empty list of similar columns.
RECURSIVE suggestion_messages(_, _)
suggestion_messages(missing_columns, actual_columns) ==
  IF missing_columns = <<>> THEN <<>>
  ELSE LET missing == Head(missing_columns)
           similar == _find_similar_columns(missing, actual_columns)
       IN  (IF similar # <<>> THEN <<MsgSuggest(missing, first_three(similar))>> ELSE <<>>)
           \o suggestion_messages(Tail(missing_columns), actual_columns)

\* Mutant: the optional columns are listed without looking them up in the
\* table.
_generate_recommendations_any_optional(missing_columns, available_columns, optional_columns, actual_columns) ==
  IF missing_columns = <<>>
  THEN <<MsgAllAvailable>>
       \o (IF optional_columns # <<>> THEN <<MsgOptional(optional_columns)>> ELSE <<>>)
  ELSE <<MsgMissing(missing_columns)>>
       \o (IF available_columns # <<>>
           THEN <<MsgPartial(available_columns)>>
           ELSE <<MsgNoneAvailable>>)
       \o suggestion_messages(missing_columns, actual_columns)

\* Mutant: partial analysis is offered when the table has any column.
_generate_recommendations_partial_by_actual(missing_columns, available_columns, optional_columns, actual_columns) ==
  IF missing_columns = <<>>
  THEN LET optional_available == filter_in(optional_columns, Range(actual_columns))
       IN  <<MsgAllAvailable>>
           \o (IF optional_available # <<>> THEN <<MsgOptional(optional_available)>> ELSE <<>>)
  ELSE LET recommendations ==
             <<MsgMissing(missing_columns)>>
             \o (IF actual_columns # <<>>
                 THEN <<MsgPartial(available_columns)>>
                 ELSE <<MsgNoneAvailable>>)
             \o suggestion_messages(missing_columns, actual_columns)
       IN  recommendations
           \o (IF /\ available_columns = <<>>
                  /\ ~ \E i \in DOMAIN recommendations :
                         str_in(CONSIDER_USING, text(recommendations[i]))
               THEN <<MsgAddColumns>>
               ELSE <<>>)

\* Mutant: the first case does not return, the messages of the second case
\* follow it.
_generate_recommendations_no_return(missing_columns, available_columns, optional_columns, actual_columns) ==
  LET optional_available == filter_in(optional_columns, Range(actual_columns))
      first_case ==
        IF missing_columns = <<>>
        THEN <<MsgAllAvailable>>
             \o (IF optional_available # <<>> THEN <<MsgOptional(optional_available)>> ELSE <<>>)
        ELSE <<>>
      recommendations ==
        first_case
        \o <<MsgMissing(missing_columns)>>
        \o (IF available_columns # <<>>
            THEN <<MsgPartial(available_columns)>>
            ELSE <<MsgNoneAvailable>>)
        \o suggestion_messages(missing_columns, actual_columns)
  IN  recommendations
      \o (IF /\ available_columns = <<>>
             /\ ~ \E i \in DOMAIN recommendations :
                    str_in(CONSIDER_USING, text(recommendations[i]))
          THEN <<MsgAddColumns>>
          ELSE <<>>)

_generate_recommendations(missing_columns, available_columns, optional_columns, actual_columns) ==
  IF missing_columns = <<>>
  THEN LET optional_available == filter_in(optional_columns, Range(actual_columns))
       IN  <<MsgAllAvailable>>
           \o (IF optional_available # <<>> THEN <<MsgOptional(optional_available)>> ELSE <<>>)
  ELSE LET recommendations ==
             <<MsgMissing(missing_columns)>>
             \o (IF available_columns # <<>>
                 THEN <<MsgPartial(available_columns)>>
                 ELSE <<MsgNoneAvailable>>)
             \o suggestion_messages(missing_columns, actual_columns)
       IN  recommendations
           \o (IF /\ available_columns = <<>>
                  /\ ~ \E i \in DOMAIN recommendations :
                         str_in(CONSIDER_USING, text(recommendations[i]))
               THEN <<MsgAddColumns>>
               ELSE <<>>)

\* The sets match_columns computes (steps 1 to 3).  table_schema.get("columns", [])
\* reads a schema without 'columns' as one with no columns.
actual_column_set(schema) ==
  IF "columns" \in DOMAIN schema THEN {col.name : col \in Range(schema.columns)} ELSE {}

required_column_set(llm_output) == Range(llm_output.required_columns)

available_column_set(required_columns, actual_columns) == required_columns \cap actual_columns

\* Mutant: the difference is forgotten, every required column counts as missing.
missing_column_set_all_required(required_columns, actual_columns) == required_columns

missing_column_set(required_columns, actual_columns) == required_columns \ actual_columns

\* Mutant: _find_similar_columns reads missing_parts[0], which a name with
\* no part (underscores only) does not have.
match_columns_error_first_part(table_schema, llm_output) ==
  IF table_schema = None THEN "AttributeError"
  ELSE IF /\ "columns" \in DOMAIN table_schema[1]
          /\ \E col \in Range(table_schema[1].columns) : "name" \notin DOMAIN col
       THEN "KeyError"
       ELSE IF \E name \in missing_column_set(required_column_set(llm_output),
                                               actual_column_set(table_schema[1])) :
                  split(replace_underscores(lower(name))) = <<>>
            THEN "IndexError"
            ELSE ""

\* The exception match_columns ends with, "" when it returns: None has no
\* .get, and col["name"] needs the key in every entry of 'columns'.
match_columns_error(table_schema, llm_output) ==
  IF table_schema = None THEN "AttributeError"
  ELSE IF /\ "columns" \in DOMAIN table_schema[1]
          /\ \E col \in Range(table_schema[1].columns) : "name" \notin DOMAIN col
       THEN "KeyError"
       ELSE ""

\* The orders in which the three sets of one call can be iterated.
MatchIterations(table_schema, llm_output) ==
  LET actual == actual_column_set(table_schema[1])
      required == required_column_set(llm_output)
  IN  [missing : IterationOrders(missing_column_set(required, actual)),
       available : IterationOrders(available_column_set(required, actual)),
       actual : IterationOrders(actual)]

\* Mutant: the two lists are returned as the sets were iterated, not sorted.
ColumnMatchResultUnsorted(table_schema, llm_output, iteration) ==
  [technical_summary |-> llm_output.technical_summary,
   required_columns |-> llm_output.required_columns,
   available_columns |-> iteration.available,
   missing_columns |-> iteration.missing,
   optional_columns |-> llm_output.optional_columns,
   assumptions |-> llm_output.assumptions,
   recommendations |->
     _generate_recommendations(iteration.missing, iteration.available,
                               llm_output.optional_columns, iteration.actual)]

\* Mutant: required_columns is rebuilt from the set, sorted like the others.
ColumnMatchResultSortedRequired(table_schema, llm_output, iteration) ==
  LET actual == actual_column_set(table_schema[1])
      required == required_column_set(llm_output)
  IN  [technical_summary |-> llm_output.technical_summary,
       required_columns |-> sorted(required),
       available_columns |-> sorted(available_column_set(required, actual)),
       missing_columns |-> sorted(missing_column_set(required, actual)),
       optional_columns |-> llm_output.optional_columns,
       assumptions |-> llm_output.assumptions,
       recommendations |->
         _generate_recommendations(iteration.missing, iteration.available,
                                   llm_output.optional_columns, iteration.actual)]

\* match_columns on a call that returns; iteration gives list(missing_columns),
\* list(available_columns) and list(actual_columns) of this call.
ColumnMatchResult(table_schema, llm_output, iteration) ==
  LET actual == actual_column_set(table_schema[1])
      required == required_column_set(llm_output)
  IN  [technical_summary |-> llm_output.technical_summary,
       required_columns |-> llm_output.required_columns,
       available_columns |-> sorted(available_column_set(required, actual)),
       missing_columns |-> sorted(missing_column_set(required, actual)),
       optional_columns |-> llm_output.optional_columns,
       assumptions |-> llm_output.assumptions,
       recommendations |->
         _generate_recommendations(iteration.missing, iteration.available,
                                   llm_output.optional_columns, iteration.actual)]

\* The outcomes of match_columns(table_schema, llm_output): the exception
\* raised, or one result for each way the sets can be iterated.
match_columns(table_schema, llm_output) ==
  LET error == match_columns_error(table_schema, llm_output)
  IN  IF error # ""
      THEN {[raised |-> error, result |-> None]}
      ELSE {[raised |-> "", result |-> Some(ColumnMatchResult(table_schema, llm_output, it))] :
              it \in MatchIterations(table_schema, llm_output)}

\* Mutant: completeness is decided by comparing the lengths of the lists.
to_dict_by_length(self) ==
  [technical_summary |-> self.technical_summary,
   required_columns |-> self.required_columns,
   available_columns |-> self.available_columns,
   missing_columns |-> self.missing_columns,
   optional_columns |-> self.optional_columns,
   assumptions |-> self.assumptions,
   recommendations |-> self.recommendations,
   analysis_complete |-> (Len(self.available_columns) = Len(self.required_columns))]

\* ColumnMatchResult.to_dict
to_dict(self) ==
  [technical_summary |-> self.technical_summary,
   required_columns |-> self.required_columns,
   available_columns |-> self.available_columns,
   missing_columns |-> self.missing_columns,
   optional_columns |-> self.optional_columns,
   assumptions |-> self.assumptions,
   recommendations |-> self.recommendations,
   analysis_complete |-> (Len(self.missing_columns) = 0)]

\* AnalyzeColumnsResponse(**d): a field the dict does not give takes the
\* default of the response model.
AnalyzeColumnsResponse(d) ==
  [technical_summary |-> d.technical_summary,
   required_columns |-> d.required_columns,
   available_columns |-> d.available_columns,
   missing_columns |-> d.missing_columns,
   optional_columns |-> IF "optional_columns" \in DOMAIN d THEN d.optional_columns ELSE <<>>,
   sql_filters |-> IF "sql_filters" \in DOMAIN d THEN d.sql_filters ELSE None,
   assumptions |-> d.assumptions,
   recommendations |-> IF "recommendations" \in DOMAIN d THEN d.recommendations ELSE <<>>,
   analysis_complete |-> d.analysis_complete]

\* ------------------------------------------------------------------------
\* Inputs of the column matcher
\* ------------------------------------------------------------------------

\* Column names: one in lower case, the same in upper case (another name
\* to the set operations, the same to the lower-casing fuzzy search), one
\* of two parts of which one has only 2 characters; among the examples,
\* one made of underscores only (no part at all).
mrr == <<"m", "r", "r">>
MRR == <<"M", "R", "R">>
underscores == <<"_", "_">>
mrr_id == <<"m", "r", "r", "_", "i", "d">>
industry == <<"i", "n", "d", "u", "s", "t", "r", "y">>
created_at == <<"c", "r", "e", "a", "t", "e", "d", "_", "a", "t">>

ColumnNames == {mrr, MRR, mrr_id}

\* The names of the examples of the fuzzy search.
customer_id == <<"c", "u", "s", "t", "o", "m", "e", "r", "_", "i", "d">>
create_date == <<"c", "r", "e", "a", "t", "e", "_", "d", "a", "t", "e">>
email == <<"e", "m", "a", "i", "l">>
created_date_value ==
  <<"c", "r", "e", "a", "t", "e", "d", "_", "d", "a", "t", "e", "_", "v", "a", "l", "u", "e">>
updated_at == <<"u", "p", "d", "a", "t", "e", "d", "_", "a", "t">>
name_column == <<"n", "a", "m", "e">>
column_a == <<"a">>
column_b == <<"b">>
zzz_unmatched == <<"z", "z", "z", "_", "u", "n", "m", "a", "t", "c", "h", "e", "d">>
mrr_at == <<"m", "r", "r", "_", "a", "t">>
mrr_total == <<"m", "r", "r", "_", "t", "o", "t", "a", "l">>

\* A name that holds the words the generic message is decided by.
consider_using == <<"c", "o", "n", "s", "i", "d", "e", "r", " ", "u", "s", "i", "n", "g">>

\* The tables of the examples, and one with four columns that all hold
\* 'mrr'.
ExampleTables ==
  {<<mrr, industry, created_at>>,
   <<customer_id, create_date, email>>,
   <<created_date_value>>,
   <<create_date, updated_at, name_column>>,
   <<column_a, column_b>>,
   <<underscores, mrr>>,
   <<mrr_id, MRR, mrr, mrr_at>>}

\* The required_columns of the examples.
ExampleRequiredLists ==
  {<<mrr, industry>>, <<created_at>>, <<create_date>>, <<zzz_unmatched>>, <<mrr_total>>,
   <<mrr_total, created_at>>, <<underscores>>, <<underscores, MRR>>, <<consider_using>>}

OptionalNames == {mrr}

\* Lists of at most n elements of S, and those without a repeated element.
ListsUpTo(S, n) == UNION {[1..k -> S] : k \in 0..n}

DistinctListsUpTo(S, n) ==
  {s \in ListsUpTo(S, n) : \A i, j \in DOMAIN s : s[i] = s[j] => i = j}

\* One entry of 'columns' as table_to_dict builds it.
ColumnEntry(name) ==
  [name |-> name, type |-> "VARCHAR", nullable |-> TRUE, primary_key |-> FALSE]

ColumnEntries(names) == [i \in DOMAIN names |-> ColumnEntry(names[i])]

TableDict(names) == [table_name |-> "crm_customers", columns |-> ColumnEntries(names)]

\* The schemas match_columns is given: every table of at most MaxCols
\* columns, the table of the full-match example, and the arguments outside
\* its contract: no schema, a schema without 'columns', an entry of
\* 'columns' without 'name'.
WellFormedSchemas ==
  {Some(TableDict(names)) : names \in DistinctListsUpTo(ColumnNames, MaxCols)}
  \cup {Some(TableDict(names)) : names \in ExampleTables}

SchemaWithoutColumns == Some([table_name |-> "crm_customers"])

SchemaWithNamelessColumn ==
  Some([table_name |-> "crm_customers",
        columns |-> <<ColumnEntry(mrr), [type |-> "VARCHAR", nullable |-> TRUE, primary_key |-> FALSE]>>])

TableSchemas == WellFormedSchemas \cup {None, SchemaWithoutColumns, SchemaWithNamelessColumn}

\* The plans the Requirement Interpreter returns (ColumnPlanOutput).
SqlFilterChoices == {None, Some(<<[column |-> industry, operator |-> "=", value |-> "Healthcare"]>>)}

ColumnPlanOutput(required, optional, filters) ==
  [technical_summary |-> "Calculate average MRR grouped by industry",
   required_columns |-> required,
   optional_columns |-> optional,
   assumptions |-> "Interpreted revenue as mrr",
   sql_filters |-> filters]

RequiredLists == ListsUpTo(ColumnNames, MaxReq) \cup ExampleRequiredLists

MatcherPlans ==
  {ColumnPlanOutput(required, optional, None) :
     required \in RequiredLists, optional \in ListsUpTo(OptionalNames, MaxOpt)}

\* ------------------------------------------------------------------------
\* State
\* ------------------------------------------------------------------------
VARIABLES
  table_schema,     \* matcher: the schema argument of match_columns
  llm_output,       \* matcher: the plan argument of match_columns
  outcomes,         \* matcher: the outcome of each call made so far
  body,             \* matcher: the response body built from the latest result
  db,               \* the database behind the engine
  lifespan,         \* where the lifespan of the application is
  load_index,       \* load_schema: the next entry of schemas_to_load
  SCHEMA_CACHE,     \* the registry: clean table name -> table dict
  inflight,         \* the requests suspended at an await (a bag)
  last_response,    \* the response sent last, with what its handler used
  tickets,          \* the rows of metadata.admin_report_requests
  observed,         \* history: the registry contents request handlers have read
  report_request,   \* report: the request body given to the report executor
  executed,         \* report: the queries executed, each with its parameters
  PROVIDER_REGISTRY, \* llm: provider name -> provider class
  provider_result   \* llm: what the last call of the model factory ended with

matcher_vars == <<table_schema, llm_output, outcomes, body>>

app_vars == <<db, lifespan, load_index, SCHEMA_CACHE, inflight, last_response, tickets, observed>>

report_vars == <<report_request, executed>>

provider_vars == <<PROVIDER_REGISTRY, provider_result>>

\* what the handlers of the application leave alone
unit_vars == <<matcher_vars, report_vars, provider_vars>>

vars == <<table_schema, llm_output, outcomes, body,
          db, lifespan, load_index, SCHEMA_CACHE, inflight, last_response, tickets, observed,
          report_request, executed, PROVIDER_REGISTRY, provider_result>>

\* ------------------------------------------------------------------------
\* The database and the schema registry (app/schemas/schema_registry.py)
\* ------------------------------------------------------------------------

\* A table or schema name is the sequence of its parts between dots:
\* "public.crm_customers" is <<"public", "crm_customers">>.
crm_customers == <<"crm_customers">>
orders == <<"orders">>
admin_report_requests == <<"admin_report_requests">>
unknown_table == <<"unknown_table">>

Table(name, column_names) == [name |-> name, columns |-> column_names]

\* The databases the engine may be bound to: what each database schema
\* holds, in the order reflection returns the tables.
SqliteDb ==
  [url |-> "sqlite",
   tables |-> [s \in {None} |-> <<Table(crm_customers, <<mrr, industry>>), Table(orders, <<mrr_id>>)>>]]

PostgresDb ==
  [url |-> "postgresql",
   tables |-> [s \in {Some("public"), Some("metadata")} |->
                 IF s = Some("public")
                 THEN <<Table(crm_customers, <<mrr, industry>>)>>
                 ELSE <<Table(admin_report_requests, <<mrr_id>>)>>]]

PostgresSameNameDb ==
  [url |-> "postgresql",
   tables |-> [s \in {Some("public"), Some("metadata")} |->
                 IF s = Some("public")
                 THEN <<Table(crm_customers, <<mrr, industry>>)>>
                 ELSE <<Table(crm_customers, <<mrr_id>>)>>]]

Databases == {SqliteDb, PostgresDb, PostgresSameNameDb}

EmptyDict == [k \in {} |-> None]

\* d[k] = v on a dict
Put(d, k, v) == [x \in DOMAIN d \cup {k} |-> IF x = k THEN v ELSE d[x]]

\* schemas_to_load of load_schema
schemas_to_load(database) ==
  IF database.url = "postgresql" THEN <<Some("public"), Some("metadata")>> ELSE <<None>>

\* The key of a reflected table in metadata.tables: 'schema.table' when a
\* schema was given.
metadata_key(schema, table) == IF schema = None THEN table.name ELSE <<schema[1]>> \o table.name

\* table_name.split('.')[-1] if '.' in table_name else table_name
clean_name(table_name) ==
  IF Len(table_name) > 1 THEN <<table_name[Len(table_name)]>> ELSE table_name

table_to_dict(table) == [table_name |-> table.name, columns |-> ColumnEntries(table.columns)]

\* What load_schema stores for one reflected table.
table_dict_of(schema, table) ==
  [table_name |-> table_to_dict(table).table_name,
   columns |-> table_to_dict(table).columns,
   schema |-> schema,
   full_name |-> metadata_key(schema, table)]

\* The loop over metadata.tables.items() of one schema.
RECURSIVE store_tables(_, _, _)
store_tables(cache, schema, tables) ==
  IF tables = <<>> THEN cache
  ELSE store_tables(Put(cache, clean_name(metadata_key(schema, Head(tables))),
                        table_dict_of(schema, Head(tables))),
                    schema, Tail(tables))

get_table_schema(table_name) ==
  IF table_name \in DOMAIN SCHEMA_CACHE THEN Some(SCHEMA_CACHE[table_name]) ELSE None

\* list(SCHEMA_CACHE.keys()), as the set of the keys
list_tables == DOMAIN SCHEMA_CACHE

\* ------------------------------------------------------------------------
\* The lifespan of the application (app/main.py)
\* ------------------------------------------------------------------------

\* load_schema has gone through every entry of schemas_to_load.
load_schema_returned == load_index > Len(schemas_to_load(db))

\* One round of the loop of load_schema: the schema is reflected (an await)
\* and its tables are stored.
load_schema_reflect ==
  /\ lifespan = "startup"
  /\ ~ load_schema_returned
  /\ SCHEMA_CACHE' = store_tables(SCHEMA_CACHE, schemas_to_load(db)[load_index],
                                  db.tables[schemas_to_load(db)[load_index]])
  /\ load_index' = load_index + 1
  /\ UNCHANGED <<db, lifespan, inflight, last_response, tickets, observed>>
  /\ UNCHANGED unit_vars

\* Mutant: the lifespan catches the error of load_schema and goes on to
\* serve with what was stored.
load_schema_raises_swallowed ==
  /\ lifespan = "startup"
  /\ ~ load_schema_returned
  /\ lifespan' = "serving"
  /\ UNCHANGED <<db, load_index, SCHEMA_CACHE, inflight, last_response, tickets, observed>>
  /\ UNCHANGED unit_vars

\* Reflection raises (the database is unreachable, a schema does not exist):
\* nothing in load_schema or lifespan catches it, startup fails and the
\* server exits without serving.
load_schema_raises ==
  /\ lifespan = "startup"
  /\ ~ load_schema_returned
  /\ lifespan' = "startup_failed"
  /\ UNCHANGED <<db, load_index, SCHEMA_CACHE, inflight, last_response, tickets, observed>>
  /\ UNCHANGED unit_vars

\* The yield of lifespan: the server starts to accept requests.
lifespan_yield ==
  /\ lifespan = "startup"
  /\ load_schema_returned
  /\ lifespan' = "serving"
  /\ UNCHANGED <<db, load_index, SCHEMA_CACHE, inflight, last_response, tickets, observed>>
  /\ UNCHANGED unit_vars

\* Shutdown, once the requests in flight are answered: engine.dispose().
lifespan_shutdown ==
  /\ lifespan = "serving"
  /\ inflight = EmptyBag
  /\ lifespan' = "stopped"
  /\ UNCHANGED <<db, load_index, SCHEMA_CACHE, inflight, last_response, tickets, observed>>
  /\ UNCHANGED unit_vars

\* ------------------------------------------------------------------------
\* The report executor (app/services/report_generator.py)
\* ------------------------------------------------------------------------

\* The operators generate_report has a branch for.
GT == <<">">>
LT == <<"<">>
GE == <<">", "=">>
LE == <<"<", "=">>
EQ == <<"=">>
NE == <<"!", "=">>
SqlOperators == {GT, LT, GE, LE, EQ, NE}

\* An entry of the filters dict, in the order of the dict: a scalar value
\* (is_dict FALSE), or a dict of operator -> filter_value whose items are
\* kept in their order.  The keys of a dict are distinct.
ScalarFilter(col, value) == [col |-> col, is_dict |-> FALSE, value |-> value, items |-> <<>>]
OperatorItem(operator, filter_value) == [operator |-> operator, filter_value |-> filter_value]
DictFilter(col, items) == [col |-> col, is_dict |-> TRUE, value |-> 0, items |-> items]

\* s.replace(c, by) for a one-character c
RECURSIVE replace_char(_, _, _)
replace_char(s, c, by) ==
  IF s = <<>> THEN <<>>
  ELSE (IF Head(s) = c THEN by ELSE <<Head(s)>>) \o replace_char(Tail(s), c, by)

\* f"{col}_{operator.replace('>', 'gt').replace('<', 'lt').replace('=', 'eq')}"
param_name(col, operator) ==
  col \o <<"_">> \o
  replace_char(replace_char(replace_char(operator, ">", <<"g", "t">>), "<", <<"l", "t">>),
               "=", <<"e", "q">>)

\* f"{col}_eq" of a scalar filter
scalar_param_name(col) == col \o <<"_", "e", "q">>

\* Mutant: the value is formatted into the condition.
condition_interpolated(col, operator, name, filter_value) ==
  col \o <<" ">> \o operator \o <<" ">> \o str_of_int(filter_value)

\* f"{col} {operator} :{param_name}": the text of one condition.  The value
\* is in scope where the text is built and is not used.
condition(col, operator, name, filter_value) ==
  col \o <<" ">> \o operator \o <<" :">> \o name

NoConditions == [conditions |-> <<>>, params |-> EmptyDict]

\* for operator, filter_value in value.items(): a condition for an operator
\* that has a branch, and params[param_name] = filter_value for every key.
RECURSIVE operator_conditions(_, _, _)
operator_conditions(built, col, items) ==
  IF items = <<>> THEN built
  ELSE LET operator == Head(items).operator
           filter_value == Head(items).filter_value
           name == param_name(col, operator)
       IN  operator_conditions(
             [conditions |-> IF operator \in SqlOperators
                             THEN Append(built.conditions, condition(col, operator, name, filter_value))
                             ELSE built.conditions,
              params |-> Put(built.params, name, filter_value)],
             col, Tail(items))

\* for col, value in filters.items()
RECURSIVE filter_conditions(_, _)
filter_conditions(built, filters) ==
  IF filters = <<>> THEN built
  ELSE LET f == Head(filters)
       IN  filter_conditions(
             IF f.is_dict
             THEN operator_conditions(built, f.col, f.items)
             ELSE [conditions |-> Append(built.conditions,
                                         condition(f.col, EQ, scalar_param_name(f.col), f.value)),
                   params |-> Put(built.params, scalar_param_name(f.col), f.value)],
             Tail(filters))

\* f"{table_info['schema']}.{table_name}" when the registry has a schema for
\* the table
full_table_name(table_name) ==
  LET table_info == get_table_schema(table_name)
  IN  IF /\ table_info # None
         /\ "schema" \in DOMAIN table_info[1]
         /\ table_info[1].schema # None
      THEN <<table_info[1].schema[1], ".">> \o table_name
      ELSE table_name

LIMIT_PARAM == <<"l", "i", "m", "i", "t">>

\* Mutant: the limit is bound as it was given.
capped_limit_uncapped(limit) == limit

\* if limit > 1000: limit = 1000
capped_limit(limit) == IF limit > 1000 THEN 1000 ELSE limit

\* generate_report up to the execution of the query: the SQL text and the
\* parameters given to conn.execute.
generate_report(table_name, columns, filters, limit) ==
  LET built == IF filters = None \/ filters[1] = <<>>
               THEN NoConditions
               ELSE filter_conditions(NoConditions, filters[1])
      where_clause == IF built.conditions = <<>> THEN <<>>
                      ELSE <<" WHERE ">> \o join(<<" AND ">>, built.conditions)
  IN  [sql_query |-> <<"SELECT ">> \o join(COMMA_SPACE, columns) \o <<" FROM ">>
                       \o full_table_name(table_name) \o where_clause \o <<" LIMIT :limit">>,
       params |-> Put(built.params, LIMIT_PARAM, capped_limit(limit))]

\* request.limit or 100, the limit the route passes
request_limit(limit) == IF limit = None \/ limit = Some(0) THEN 100 ELSE limit[1]

\* ------------------------------------------------------------------------
\* The model factory (llm/model_factory.py)
\* ------------------------------------------------------------------------

openai == <<"o", "p", "e", "n", "a", "i">>
groq == <<"g", "r", "o", "q">>

\* A provider class: its name, and whether it extends BaseProvider.
ProviderClass(name, extends_base) == [name |-> name, extends_base |-> extends_base]

OpenAIProvider == ProviderClass("OpenAIProvider", TRUE)
GroqProvider == ProviderClass("GroqProvider", TRUE)

\* PROVIDER_REGISTRY as the module is imported
InitialProviderRegistry == Put(Put(EmptyDict, openai, OpenAIProvider), groq, GroqProvider)

\* issubclass(provider_class, BaseProvider)
issubclass_BaseProvider(provider_class) == provider_class.extends_base

\* str.strip(): the blanks at both ends are removed
RECURSIVE lstrip(_)
lstrip(s) == IF s # <<>> /\ Head(s) = " " THEN lstrip(Tail(s)) ELSE s

RECURSIVE rstrip(_)
rstrip(s) == IF s # <<>> /\ s[Len(s)] = " " THEN rstrip(SubSeq(s, 1, Len(s) - 1)) ELSE s

strip(s) == rstrip(lstrip(s))

\* Mutant: the name is looked up in lower case, with its blanks.
normalized_provider_name_unstripped(provider_name) == lower(provider_name)

\* provider_name.lower().strip() of ModelProvider and get_provider_class
normalized_provider_name(provider_name) == strip(lower(provider_name))

\* What a call of the factory ends with: the exception raised ("" when it
\* returns), the class looked up, and whether an instance was constructed.
ProviderOutcome(raised, provider_class, constructed) ==
  [raised |-> raised, provider_class |-> provider_class, constructed |-> constructed]

\* get_provider_class(provider_name)
get_provider_class(provider_name) ==
  IF normalized_provider_name(provider_name) \notin DOMAIN PROVIDER_REGISTRY
  THEN ProviderOutcome("ValueError", None, FALSE)
  ELSE ProviderOutcome("", Some(PROVIDER_REGISTRY[normalized_provider_name(provider_name)]), FALSE)

\* ModelProvider(provider_name): the outcomes of the call.  The constructor
\* of the provider class may raise (no API key), which ModelProvider raises
\* again as Exception.
ModelProvider(provider_name) ==
  IF normalized_provider_name(provider_name) \notin DOMAIN PROVIDER_REGISTRY
  THEN {ProviderOutcome("ValueError", None, FALSE)}
  ELSE {ProviderOutcome("", Some(PROVIDER_REGISTRY[normalized_provider_name(provider_name)]), TRUE),
        ProviderOutcome("Exception", Some(PROVIDER_REGISTRY[normalized_provider_name(provider_name)]), FALSE)}

\* register_provider(name, provider_class): the exception it raises, and the
\* registry it leaves.
register_provider_raises(name, provider_class) ==
  IF ~ issubclass_BaseProvider(provider_class) THEN "ValueError" ELSE ""

register_provider(name, provider_class) ==
  IF register_provider_raises(name, provider_class) # ""
  THEN PROVIDER_REGISTRY
  ELSE Put(PROVIDER_REGISTRY, lower(name), provider_class)

\* The factory is not used.
ProviderIdle ==
  /\ PROVIDER_REGISTRY = InitialProviderRegistry
  /\ provider_result = None

\* The report executor is not called on its own.
ReportIdle ==
  /\ report_request = None
  /\ executed = <<>>

\* ------------------------------------------------------------------------
\* The request handlers (app/routes/analytics.py, app/main.py)
\* ------------------------------------------------------------------------

RequestTableNames == {crm_customers, unknown_table}

\* requirement texts: a sentence, and one of blanks only
Requirements == {"Show me average MRR by industry", " "}

\* What the Requirement Interpreter may return for a request.
AppPlans ==
  {ColumnPlanOutput(<<mrr, industry>>, <<>>, filters) : filters \in SqlFilterChoices}
  \cup {ColumnPlanOutput(<<MRR, mrr>>, <<mrr>>, None)}

ReportColumnChoices == {<<mrr>>, <<mrr, created_at>>}
\* filters: none, and one on a column of crm_customers and on a column that
\* no table has
ReportFilterChoices == {None, Some(<<ScalarFilter(industry, 7), ScalarFilter(created_at, 7)>>)}
ReportLimitChoices == {None, Some(5000)}

\* How often one request has invoked each collaborator.
NoCalls == [plan_columns |-> 0, match_columns |-> 0, generate_report |-> 0,
            save_admin_request |-> 0]

Call(calls, collaborator) == [calls EXCEPT ![collaborator] = @ + 1]

\* What a handler ends with: the status and the body of the response, the
\* detail {error, detail} of an HTTPException.  calls and failed record what
\* the request did: the collaborators it invoked and the one that raised.
Response(endpoint, request, status, error, response_body, llm_result) ==
  Some([endpoint |-> endpoint, request |-> request, status |-> status, error |-> error,
        body |-> response_body, llm_result |-> llm_result,
        calls |-> NoCalls, failed |-> ""])

Traced(response, calls, failed) ==
  Some([response[1] EXCEPT !.calls = calls, !.failed = failed])

NotFound(endpoint, request) ==
  Response(endpoint, request, 404, "Table not found", None, None)

Respond(response) ==
  /\ last_response' = response
  /\ UNCHANGED <<db, lifespan, load_index, SCHEMA_CACHE, tickets>>

\* GET /
root ==
  /\ lifespan = "serving"
  /\ Respond(Response("root", [table_name |-> <<>>], 200, "", Some([status |-> "running"]), None))
  /\ UNCHANGED <<inflight, observed>>
  /\ UNCHANGED unit_vars

\* GET /health
health_check ==
  /\ lifespan = "serving"
  /\ Respond(Response("health_check", [table_name |-> <<>>], 200, "",
                      Some([schemas_loaded |-> Cardinality(list_tables) > 0,
                            tables_count |-> Cardinality(list_tables),
                            tables |-> list_tables]), None))
  /\ observed' = observed \cup {SCHEMA_CACHE}
  /\ UNCHANGED inflight
  /\ UNCHANGED unit_vars

\* Mutant: the handler writes the column count into the cached table dict.
get_tables_annotating ==
  /\ lifespan = "serving"
  /\ last_response' =
       Response("get_tables", [table_name |-> <<>>], 200, "",
                Some([tables |-> {[table_name |-> t, column_count |-> Len(SCHEMA_CACHE[t].columns)] :
                                    t \in list_tables},
                      total_tables |-> Cardinality(list_tables)]), None)
  /\ SCHEMA_CACHE' = [t \in DOMAIN SCHEMA_CACHE |->
                        [table_name |-> SCHEMA_CACHE[t].table_name,
                         columns |-> SCHEMA_CACHE[t].columns,
                         schema |-> SCHEMA_CACHE[t].schema,
                         full_name |-> SCHEMA_CACHE[t].full_name,
                         column_count |-> Len(SCHEMA_CACHE[t].columns)]]
  /\ observed' = observed \cup {SCHEMA_CACHE}
  /\ UNCHANGED <<db, lifespan, load_index, tickets, inflight>>
  /\ UNCHANGED unit_vars

\* GET /api/tables
get_tables ==
  /\ lifespan = "serving"
  /\ Respond(Response("get_tables", [table_name |-> <<>>], 200, "",
                      Some([tables |-> {[table_name |-> t, column_count |-> Len(SCHEMA_CACHE[t].columns)] :
                                          t \in list_tables},
                            total_tables |-> Cardinality(list_tables)]), None))
  /\ observed' = observed \cup {SCHEMA_CACHE}
  /\ UNCHANGED inflight
  /\ UNCHANGED unit_vars

\* GET /api/tables/{table_name}/schema
get_table_schema_endpoint ==
  /\ lifespan = "serving"
  /\ \E table_name \in RequestTableNames :
        LET request == [table_name |-> table_name]
        IN  IF table_name \notin list_tables
            THEN Respond(NotFound("get_table_schema", request))
            ELSE Respond(Response("get_table_schema", request, 200, "",
                                  Some([table_name |-> table_name,
                                        columns |-> get_table_schema(table_name)[1].columns,
                                        total_columns |-> Len(get_table_schema(table_name)[1].columns)]),
                                  None))
  /\ observed' = observed \cup {SCHEMA_CACHE}
  /\ UNCHANGED inflight
  /\ UNCHANGED unit_vars

\* The checks plan_columns makes before it calls the LLM: the error it
\* raises, "" when it goes on to the call.
plan_columns_rejects(table_name, schema, user_requirement) ==
  IF table_name = <<>> THEN "ValueError"
  ELSE IF user_requirement = "" \/ user_requirement = " " THEN "ValueError"
  ELSE IF schema = None \/ "columns" \notin DOMAIN schema[1] THEN "ValueError"
  ELSE ""

\* Mutant: step 1 is left out, an unknown table is found out by step 2.
analyze_columns_without_table_check ==
  /\ lifespan = "serving"
  /\ \E table_name \in RequestTableNames, requirement \in Requirements :
        LET request == [table_name |-> table_name, requirement |-> requirement]
            schema == get_table_schema(table_name)
        IN  IF schema = None \/ schema[1] = EmptyDict
            THEN /\ Respond(Response("analyze_columns", request, 500,
                                     "Failed to retrieve table schema", None, None))
                 /\ UNCHANGED inflight
            ELSE IF plan_columns_rejects(table_name, schema, requirement) # ""
            THEN /\ Respond(Traced(Response("analyze_columns", request, 500,
                                            "LLM analysis failed", None, None),
                                   Call(NoCalls, "plan_columns"), "plan_columns"))
                 /\ UNCHANGED inflight
            ELSE /\ BagCardinality(inflight) < MaxInflight
                 /\ inflight' = inflight (+) SetToBag({[endpoint |-> "analyze_columns",
                                                        request |-> request,
                                                        table_schema |-> schema,
                                                        calls |-> Call(NoCalls, "plan_columns")]})
                 /\ UNCHANGED <<db, lifespan, load_index, SCHEMA_CACHE, last_response, tickets>>
  /\ observed' = observed \cup {SCHEMA_CACHE}
  /\ UNCHANGED unit_vars

\* POST /api/analyze/columns, up to the await of the LLM call (steps 1 to 3).
analyze_columns ==
  /\ lifespan = "serving"
  /\ \E table_name \in RequestTableNames, requirement \in Requirements :
        LET request == [table_name |-> table_name, requirement |-> requirement]
            schema == get_table_schema(table_name)
        IN  IF table_name \notin list_tables
            THEN Respond(NotFound("analyze_columns", request)) /\ UNCHANGED inflight
            ELSE IF schema = None \/ schema[1] = EmptyDict
            THEN /\ Respond(Response("analyze_columns", request, 500,
                                     "Failed to retrieve table schema", None, None))
                 /\ UNCHANGED inflight
            ELSE IF plan_columns_rejects(table_name, schema, requirement) # ""
            THEN /\ Respond(Traced(Response("analyze_columns", request, 500,
                                            "LLM analysis failed", None, None),
                                   Call(NoCalls, "plan_columns"), "plan_columns"))
                 /\ UNCHANGED inflight
            ELSE /\ BagCardinality(inflight) < MaxInflight
                 /\ inflight' = inflight (+) SetToBag({[endpoint |-> "analyze_columns",
                                                        request |-> request,
                                                        table_schema |-> schema,
                                                        calls |-> Call(NoCalls, "plan_columns")]})
                 /\ UNCHANGED <<db, lifespan, load_index, SCHEMA_CACHE, last_response, tickets>>
  /\ observed' = observed \cup {SCHEMA_CACHE}
  /\ UNCHANGED unit_vars

\* Mutant: a failed LLM call is tried once more before the 500.
analyze_columns_llm_fails_retrying ==
  /\ \E r \in BagToSet(inflight) :
        /\ r.endpoint = "analyze_columns"
        /\ IF r.calls.plan_columns < 2
           THEN /\ inflight' = (inflight (-) SetToBag({r}))
                                  (+) SetToBag({[r EXCEPT !.calls = Call(r.calls, "plan_columns")]})
                /\ UNCHANGED <<db, lifespan, load_index, SCHEMA_CACHE, last_response, tickets>>
           ELSE /\ inflight' = inflight (-) SetToBag({r})
                /\ Respond(Traced(Response("analyze_columns", r.request, 500,
                                           "LLM analysis failed", None, None),
                                  r.calls, "plan_columns"))
  /\ UNCHANGED observed
  /\ UNCHANGED unit_vars

\* The LLM call of plan_columns raises: 500, the matcher is not reached.
analyze_columns_llm_fails ==
  /\ \E r \in BagToSet(inflight) :
        /\ r.endpoint = "analyze_columns"
        /\ inflight' = inflight (-) SetToBag({r})
        /\ Respond(Traced(Response("analyze_columns", r.request, 500,
                                   "LLM analysis failed", None, None),
                          r.calls, "plan_columns"))
  /\ UNCHANGED observed
  /\ UNCHANGED unit_vars

\* Mutant: the matcher keeps the plan in module-level state that a later
\* request reads: the plan matched is the one of the last answered request.
analyze_columns_llm_returns_shared_plan ==
  /\ \E r \in BagToSet(inflight), llm_result \in AppPlans :
        LET matched == IF last_response # None /\ last_response[1].llm_result # None
                       THEN last_response[1].llm_result[1]
                       ELSE llm_result
        IN  /\ r.endpoint = "analyze_columns"
            /\ inflight' = inflight (-) SetToBag({r})
            /\ \E outcome \in match_columns(r.table_schema, matched) :
                  IF outcome.raised # ""
                  THEN Respond(Traced(Response("analyze_columns", r.request, 500,
                                               "Column matching failed", None, Some(llm_result)),
                                      Call(r.calls, "match_columns"), "match_columns"))
                  ELSE Respond(Traced(Response("analyze_columns", r.request, 200, "",
                                               Some(AnalyzeColumnsResponse(to_dict(outcome.result[1]))),
                                               Some(llm_result)),
                                      Call(r.calls, "match_columns"), ""))
  /\ UNCHANGED observed
  /\ UNCHANGED unit_vars

\* The LLM call returns a plan: match_columns, then the response (steps 4
\* and 5).
analyze_columns_llm_returns ==
  /\ \E r \in BagToSet(inflight), llm_result \in AppPlans :
        /\ r.endpoint = "analyze_columns"
        /\ inflight' = inflight (-) SetToBag({r})
        /\ \E outcome \in match_columns(r.table_schema, llm_result) :
              IF outcome.raised # ""
              THEN Respond(Traced(Response("analyze_columns", r.request, 500,
                                           "Column matching failed", None, Some(llm_result)),
                                  Call(r.calls, "match_columns"), "match_columns"))
              ELSE Respond(Traced(Response("analyze_columns", r.request, 200, "",
                                           Some(AnalyzeColumnsResponse(to_dict(outcome.result[1]))),
                                           Some(llm_result)),
                                  Call(r.calls, "match_columns"), ""))
  /\ UNCHANGED observed
  /\ UNCHANGED unit_vars

\* limit of generate_report: request.limit or 100, capped at 1000.
report_limit(limit) == capped_limit(request_limit(limit))

\* Mutant: step 2 is left out, the columns go to the query as they are.
generate_report_endpoint_without_validation ==
  /\ lifespan = "serving"
  /\ \E table_name \in RequestTableNames, columns \in ReportColumnChoices,
        filters \in ReportFilterChoices, limit \in ReportLimitChoices :
        LET request == [table_name |-> table_name, columns |-> columns,
                        filters |-> filters, limit |-> limit]
        IN  IF table_name \notin list_tables
            THEN Respond(NotFound("generate_report", request)) /\ UNCHANGED inflight
            ELSE /\ BagCardinality(inflight) < MaxInflight
                 /\ inflight' = inflight (+) SetToBag({[endpoint |-> "generate_report",
                                                        request |-> request,
                                                        table_schema |-> get_table_schema(table_name),
                                                        calls |-> Call(NoCalls, "generate_report"),
                                                        query |-> generate_report(table_name, columns, filters,
                                                                                  request_limit(limit))]})
                 /\ UNCHANGED <<db, lifespan, load_index, SCHEMA_CACHE, last_response, tickets>>
  /\ observed' = observed \cup {SCHEMA_CACHE}
  /\ UNCHANGED unit_vars

\* POST /api/reports/generate, up to the await of the query (steps 1 to 3).
generate_report_endpoint ==
  /\ lifespan = "serving"
  /\ \E table_name \in RequestTableNames, columns \in ReportColumnChoices,
        filters \in ReportFilterChoices, limit \in ReportLimitChoices :
        LET request == [table_name |-> table_name, columns |-> columns,
                        filters |-> filters, limit |-> limit]
            available_columns ==
              {get_table_schema(table_name)[1].columns[i].name :
                 i \in DOMAIN get_table_schema(table_name)[1].columns}
            invalid_columns == {columns[i] : i \in DOMAIN columns} \ available_columns
        IN  IF table_name \notin list_tables
            THEN Respond(NotFound("generate_report", request)) /\ UNCHANGED inflight
            ELSE IF invalid_columns # {}
            THEN /\ Respond(Response("generate_report", request, 400, "Invalid columns", None, None))
                 /\ UNCHANGED inflight
            ELSE /\ BagCardinality(inflight) < MaxInflight
                 /\ inflight' = inflight (+) SetToBag({[endpoint |-> "generate_report",
                                                        request |-> request,
                                                        table_schema |-> get_table_schema(table_name),
                                                        calls |-> Call(NoCalls, "generate_report"),
                                                        query |-> generate_report(table_name, columns, filters,
                                                                                  request_limit(limit))]})
                 /\ UNCHANGED <<db, lifespan, load_index, SCHEMA_CACHE, last_response, tickets>>
  /\ observed' = observed \cup {SCHEMA_CACHE}
  /\ UNCHANGED unit_vars

\* The query of generate_report raises: 500.
generate_report_fails ==
  /\ \E r \in BagToSet(inflight) :
        /\ r.endpoint = "generate_report"
        /\ inflight' = inflight (-) SetToBag({r})
        /\ Respond(Traced(Response("generate_report", r.request, 500,
                                   "Failed to execute query", None, None),
                          r.calls, "generate_report"))
  /\ UNCHANGED observed
  /\ UNCHANGED unit_vars

\* The query of generate_report returns its rows: 200.
generate_report_returns ==
  /\ \E r \in BagToSet(inflight) :
        /\ r.endpoint = "generate_report"
        /\ inflight' = inflight (-) SetToBag({r})
        /\ Respond(Traced(Response("generate_report", r.request, 200, "",
                                   Some([table_name |-> r.request.table_name,
                                         columns |-> r.request.columns,
                                         limit |-> report_limit(r.request.limit)]), None),
                          r.calls, ""))
  /\ UNCHANGED observed
  /\ UNCHANGED unit_vars

\* POST /api/admin/register-query, up to the await of the INSERT.
register_admin_query ==
  /\ lifespan = "serving"
  /\ BagCardinality(inflight) < MaxInflight
  /\ inflight' = inflight (+) SetToBag({[endpoint |-> "register_admin_query",
                                         request |-> [table_name |-> crm_customers],
                                         table_schema |-> None,
                                         calls |-> Call(NoCalls, "save_admin_request")]})
  /\ UNCHANGED <<db, lifespan, load_index, SCHEMA_CACHE, last_response, tickets, observed>>
  /\ UNCHANGED unit_vars

\* The INSERT of save_admin_request raises: 500, no row is added.
save_admin_request_fails ==
  /\ \E r \in BagToSet(inflight) :
        /\ r.endpoint = "register_admin_query"
        /\ inflight' = inflight (-) SetToBag({r})
        /\ Respond(Traced(Response("register_admin_query", r.request, 500,
                                   "Failed to save admin request", None, None),
                          r.calls, "save_admin_request"))
  /\ UNCHANGED observed
  /\ UNCHANGED unit_vars

\* The request_id the database gives the row it inserts: the next value of
\* the sequence of the table's key.
next_request_id == Len(tickets) + 1

\* Mutant: the number of rows inserted is returned as the id.
save_admin_request_returns_rowcount ==
  /\ Len(tickets) < MaxTickets
  /\ \E r \in BagToSet(inflight) :
        /\ r.endpoint = "register_admin_query"
        /\ inflight' = inflight (-) SetToBag({r})
        /\ tickets' = Append(tickets, [request_id |-> next_request_id,
                                       table_name |-> r.request.table_name,
                                       request_type |-> "missing_columns",
                                       status |-> "pending"])
        /\ last_response' = Traced(Response("register_admin_query", r.request, 200, "",
                                            Some([success |-> TRUE, request_id |-> 1]), None),
                                   r.calls, "")
  /\ UNCHANGED <<db, lifespan, load_index, SCHEMA_CACHE, observed>>
  /\ UNCHANGED unit_vars

\* The INSERT of save_admin_request returns the id of the new row: 200.
save_admin_request_returns ==
  /\ Len(tickets) < MaxTickets
  /\ \E r \in BagToSet(inflight) :
        /\ r.endpoint = "register_admin_query"
        /\ inflight' = inflight (-) SetToBag({r})
        /\ tickets' = Append(tickets, [request_id |-> next_request_id,
                                       table_name |-> r.request.table_name,
                                       request_type |-> "missing_columns",
                                       status |-> "pending"])
        /\ last_response' = Traced(Response("register_admin_query", r.request, 200, "",
                                            Some([success |-> TRUE,
                                                  request_id |-> next_request_id]), None),
                                   r.calls, "")
  /\ UNCHANGED <<db, lifespan, load_index, SCHEMA_CACHE, observed>>
  /\ UNCHANGED unit_vars

\* ------------------------------------------------------------------------
\* The application: startup, then the handlers of concurrent requests
\* ------------------------------------------------------------------------
Init ==
  /\ db \in Databases
  /\ lifespan = "startup"
  /\ load_index = 1
  /\ SCHEMA_CACHE = EmptyDict
  /\ inflight = EmptyBag
  /\ last_response = None
  /\ tickets = <<>>
  /\ observed = {}
  /\ table_schema = None
  /\ llm_output = ColumnPlanOutput(<<>>, <<>>, None)
  /\ outcomes = <<>>
  /\ body = None
  /\ ReportIdle
  /\ ProviderIdle

Next ==
  \/ load_schema_reflect
  \/ load_schema_raises
  \/ lifespan_yield
  \/ lifespan_shutdown
  \/ root
  \/ health_check
  \/ get_tables
  \/ get_table_schema_endpoint
  \/ analyze_columns
  \/ analyze_columns_llm_fails
  \/ analyze_columns_llm_returns
  \/ generate_report_endpoint
  \/ generate_report_fails
  \/ generate_report_returns
  \/ register_admin_query
  \/ save_admin_request_fails
  \/ save_admin_request_returns

Spec == Init /\ [][Next]_vars


\* ------------------------------------------------------------------------
\* The column matcher as a function of its two arguments: it is called, then
\* called once more with the same arguments, and a result is turned into
\* the response body (steps 4 and 5 of analyze_columns).
\* ------------------------------------------------------------------------
MatcherInit ==
  /\ table_schema \in TableSchemas
  /\ llm_output \in MatcherPlans
  /\ outcomes = <<>>
  /\ body = None
  /\ db = SqliteDb
  /\ lifespan = "stopped"
  /\ load_index = 1
  /\ SCHEMA_CACHE = EmptyDict
  /\ inflight = EmptyBag
  /\ last_response = None
  /\ tickets = <<>>
  /\ observed = {}
  /\ ReportIdle
  /\ ProviderIdle

CallMatchColumns ==
  /\ Len(outcomes) < 2
  /\ body = None
  /\ \E outcome \in match_columns(table_schema, llm_output) :
        outcomes' = Append(outcomes, outcome)
  /\ UNCHANGED <<table_schema, llm_output, body>>
  /\ UNCHANGED <<app_vars, report_vars, provider_vars>>

ReturnResponse ==
  /\ outcomes # <<>>
  /\ body = None
  /\ outcomes[Len(outcomes)].raised = ""
  /\ body' = Some(AnalyzeColumnsResponse(to_dict(outcomes[Len(outcomes)].result[1])))
  /\ UNCHANGED <<table_schema, llm_output, outcomes>>
  /\ UNCHANGED <<app_vars, report_vars, provider_vars>>

MatcherNext == CallMatchColumns \/ ReturnResponse

MatcherSpec == MatcherInit /\ [][MatcherNext]_vars

\* ------------------------------------------------------------------------
\* The report executor as a function of its arguments: generate_report is
\* called with a request, then once more with filters that differ from the
\* first ones in their values only.
\* ------------------------------------------------------------------------

\* load_schema as a whole: the registry after every schema was reflected.
RECURSIVE load_schema_from(_, _, _)
load_schema_from(cache, database, index) ==
  IF index > Len(schemas_to_load(database)) THEN cache
  ELSE load_schema_from(store_tables(cache, schemas_to_load(database)[index],
                                     database.tables[schemas_to_load(database)[index]]),
                        database, index + 1)

FilterValues == {1, 2}

\* The keys of an operator dict: the six operators, and a key that
\* generate_report has no branch for.
OperatorKeys == SqlOperators \cup {<<"g", "t">>}

\* The items of an operator dict: none, one, or two of which one is '>'.
DictItems ==
  {<<>>}
  \cup {<<OperatorItem(operator, v)>> : operator \in OperatorKeys, v \in FilterValues}
  \cup {<<OperatorItem(GT, v), OperatorItem(operator, w)>> :
           operator \in OperatorKeys \ {GT}, v \in FilterValues, w \in FilterValues}
  \cup {<<OperatorItem(<<"g", "t">>, w), OperatorItem(GT, v)>> :
           v \in FilterValues, w \in FilterValues}

FilterEntries(col) ==
  {ScalarFilter(col, v) : v \in FilterValues} \cup {DictFilter(col, items) : items \in DictItems}

\* filters of a request: none, an empty dict, an entry for mrr, or an entry
\* for mrr and a scalar one for industry.
ReportFilters ==
  {None, Some(<<>>)}
  \cup {Some(<<e>>) : e \in FilterEntries(mrr)}
  \cup {Some(<<e, ScalarFilter(industry, v)>>) : e \in FilterEntries(mrr), v \in FilterValues}

ReportLimits == {None, Some(0), Some(-5), Some(50), Some(1000), Some(1001), Some(5000)}

ReportRequests ==
  [table_name : {crm_customers}, columns : {<<mrr>>, <<mrr, industry>>},
   filters : ReportFilters, limit : ReportLimits]

\* Two filters dicts with the same columns and the same operator keys, in
\* the same order.
SameShape(f, g) ==
  /\ (f = None) = (g = None)
  /\ f # None =>
        /\ Len(f[1]) = Len(g[1])
        /\ \A i \in DOMAIN f[1] :
              /\ f[1][i].col = g[1][i].col
              /\ f[1][i].is_dict = g[1][i].is_dict
              /\ Len(f[1][i].items) = Len(g[1][i].items)
              /\ \A k \in DOMAIN f[1][i].items :
                    f[1][i].items[k].operator = g[1][i].items[k].operator

\* conn.execute(text(sql_query), params) of a call: the arguments of the
\* call and the query that reaches the database.
Execution(request) ==
  [request |-> request,
   query |-> generate_report(request.table_name, request.columns, request.filters,
                             request_limit(request.limit))]

ReportInit ==
  /\ report_request \in {Some(request) : request \in ReportRequests}
  /\ executed = <<>>
  /\ db \in Databases
  /\ SCHEMA_CACHE = load_schema_from(EmptyDict, db, 1)
  /\ load_index = Len(schemas_to_load(db)) + 1
  /\ lifespan = "serving"
  /\ inflight = EmptyBag
  /\ last_response = None
  /\ tickets = <<>>
  /\ observed = {}
  /\ table_schema = None
  /\ llm_output = ColumnPlanOutput(<<>>, <<>>, None)
  /\ outcomes = <<>>
  /\ body = None
  /\ ProviderIdle

\* generate_report is called with the request.
CallGenerateReport ==
  /\ executed = <<>>
  /\ executed' = <<Execution(report_request[1])>>
  /\ UNCHANGED <<report_request, app_vars, matcher_vars, provider_vars>>

\* generate_report is called once more, with other values in the filters.
CallWithOtherValues ==
  /\ Len(executed) = 1
  /\ \E filters \in ReportFilters :
        /\ filters # report_request[1].filters
        /\ SameShape(filters, report_request[1].filters)
        /\ executed' = Append(executed, Execution([report_request[1] EXCEPT !.filters = filters]))
  /\ UNCHANGED <<report_request, app_vars, matcher_vars, provider_vars>>

ReportNext == CallGenerateReport \/ CallWithOtherValues

ReportSpec == ReportInit /\ [][ReportNext]_vars

\* ------------------------------------------------------------------------
\* The model factory on its own: providers are registered and looked up.
\* ------------------------------------------------------------------------

my_provider == <<"m", "y">>

\* The names given to the factory: registry keys and a new name, as they
\* are, with capitals, and with blanks around them.
ProviderNames ==
  {groq, <<"G", "r", "o", "q">>, <<" ", "g", "r", "o", "q", " ">>,
   my_provider, <<"M", "y">>, <<" ", "m", "y">>}

\* The classes given to register_provider: two that extend BaseProvider and
\* one that does not.
ProviderClasses ==
  {GroqProvider, ProviderClass("MyProvider", TRUE), ProviderClass("NotAProvider", FALSE)}

\* What the last call was and what it ended with.
ProviderCall(call, provider_name, argument, registry_before, outcome) ==
  Some([call |-> call, provider_name |-> provider_name, argument |-> argument,
        registry_before |-> registry_before, outcome |-> outcome])

ProviderInit ==
  /\ ProviderIdle
  /\ ReportIdle
  /\ db = SqliteDb
  /\ lifespan = "stopped"
  /\ load_index = 1
  /\ SCHEMA_CACHE = EmptyDict
  /\ inflight = EmptyBag
  /\ last_response = None
  /\ tickets = <<>>
  /\ observed = {}
  /\ table_schema = None
  /\ llm_output = ColumnPlanOutput(<<>>, <<>>, None)
  /\ outcomes = <<>>
  /\ body = None

CallModelProvider ==
  /\ \E provider_name \in ProviderNames :
        \E outcome \in ModelProvider(provider_name) :
           provider_result' = ProviderCall("ModelProvider", provider_name, None,
                                           PROVIDER_REGISTRY, outcome)
  /\ UNCHANGED <<PROVIDER_REGISTRY, app_vars, matcher_vars, report_vars>>

CallGetProviderClass ==
  /\ \E provider_name \in ProviderNames :
        provider_result' = ProviderCall("get_provider_class", provider_name, None,
                                        PROVIDER_REGISTRY, get_provider_class(provider_name))
  /\ UNCHANGED <<PROVIDER_REGISTRY, app_vars, matcher_vars, report_vars>>

CallRegisterProvider ==
  /\ \E name \in ProviderNames, provider_class \in ProviderClasses :
        /\ PROVIDER_REGISTRY' = register_provider(name, provider_class)
        /\ provider_result' =
              ProviderCall("register_provider", name, Some(provider_class), PROVIDER_REGISTRY,
                           ProviderOutcome(register_provider_raises(name, provider_class),
                                           None, FALSE))
  /\ UNCHANGED <<app_vars, matcher_vars, report_vars>>

ProviderNext == CallModelProvider \/ CallGetProviderClass \/ CallRegisterProvider

ProviderSpec == ProviderInit /\ [][ProviderNext]_vars

\* ------------------------------------------------------------------------
\* Properties of the column matcher
\* ------------------------------------------------------------------------

\* The results returned by the calls made so far.
Returned == {outcomes[i].result[1] : i \in {j \in DOMAIN outcomes : outcomes[j].raised = ""}}

\* The column names of the schema argument, read off the argument itself.
SchemaHasColumns == table_schema # None /\ "columns" \in DOMAIN table_schema[1]

SchemaColumnNames ==
  IF SchemaHasColumns
  THEN {table_schema[1].columns[i].name :
          i \in {j \in DOMAIN table_schema[1].columns : "name" \in DOMAIN table_schema[1].columns[j]}}
  ELSE {}

RequiredNames == {llm_output.required_columns[i] : i \in DOMAIN llm_output.required_columns}

StrictlyAscending(list) == \A i \in 1..(Len(list) - 1) : str_lt(list[i], list[i + 1])

\* C1: in every MatchResult, availableColumns and missingColumns together
\* are exactly the set of requiredColumns, they are disjoint, every available
\* column is a column of the schema and no missing column is.
C1_Partition ==
  \A r \in Returned :
     /\ Range(r.available_columns) \cup Range(r.missing_columns) = RequiredNames
     /\ Range(r.available_columns) \cap Range(r.missing_columns) = {}
     /\ Range(r.available_columns) \subseteq SchemaColumnNames
     /\ Range(r.missing_columns) \cap SchemaColumnNames = {}

C1_Witness ==
  \E r \in Returned : r.available_columns # <<>> /\ r.missing_columns # <<>>

C5_RequiredUnchanged ==
  \A r \in Returned :
     /\ r.required_columns = llm_output.required_columns
     /\ \A i \in DOMAIN r.required_columns :
           r.required_columns[i] \notin SchemaColumnNames
             => r.required_columns[i] \in Range(r.missing_columns)

\* A plan whose required_columns is not in ascending order and names a
\* column the schema does not have.
C5_Witness ==
  \E r \in Returned :
     /\ r.required_columns = <<mrr, MRR>>
     /\ MRR \notin SchemaColumnNames

\* C6: with no required column, both lists are empty, analysis_complete is
\* true, and the recommendations are the 'all available' message, followed by
\* the optional-columns message only if an optional column is in the schema.
C6_EmptyRequired ==
  llm_output.required_columns = <<>> =>
    /\ \A r \in Returned :
          /\ r.available_columns = <<>>
          /\ r.missing_columns = <<>>
          /\ \/ r.recommendations = <<MsgAllAvailable>>
             \/ /\ Len(r.recommendations) = 2
                /\ r.recommendations[1] = MsgAllAvailable
                /\ r.recommendations[2].kind = "optional_available"
                /\ \E i \in DOMAIN llm_output.optional_columns :
                      llm_output.optional_columns[i] \in SchemaColumnNames
    /\ body # None => body[1].analysis_complete

C6_Witness ==
  /\ llm_output.required_columns = <<>>
  /\ llm_output.optional_columns # <<>>
  /\ body # None
  /\ \E r \in Returned : Len(r.recommendations) = 2

\* C7: match_columns raises when it is given no schema or a schema without
\* 'columns'.
C7_FailFast ==
  (table_schema = None \/ "columns" \notin DOMAIN table_schema[1])
    => \A i \in DOMAIN outcomes : outcomes[i].raised # ""

\* C8: on a schema whose 'columns' entries all have a name, match_columns
\* returns a result for every plan: it has an outcome and none is an error.
WellFormedSchema ==
  /\ SchemaHasColumns
  /\ \A i \in DOMAIN table_schema[1].columns : "name" \in DOMAIN table_schema[1].columns[i]

C8_Total ==
  WellFormedSchema =>
    /\ outcomes = <<>> =>
          /\ match_columns(table_schema, llm_output) # {}
          /\ \A outcome \in match_columns(table_schema, llm_output) : outcome.raised = ""
    /\ \A i \in DOMAIN outcomes : outcomes[i].raised = "" /\ outcomes[i].result # None

\* A result for a plan that requires a name of underscores only and a name
\* in upper case, neither in the schema.
C8_Witness ==
  /\ WellFormedSchema
  /\ llm_output.required_columns = <<underscores, MRR>>
  /\ \E r \in Returned : r.missing_columns = <<MRR, underscores>>

\* ------------------------------------------------------------------------
\* Properties of the application
\* ------------------------------------------------------------------------

\* A request handler has taken a step: a response was sent, a request was
\* suspended or resumed, or the registry was read for a request.
HandlerHasRun == last_response # None \/ inflight # EmptyBag \/ observed # {}

\* C4: sql_filters of the body returned by POST /api/analyze/columns is the
\* sql_filters the Requirement Interpreter returned for that request.
C4_SqlFiltersPassThrough ==
  (/\ last_response # None
   /\ last_response[1].endpoint = "analyze_columns"
   /\ last_response[1].status = 200)
    => last_response[1].body[1].sql_filters = last_response[1].llm_result[1].sql_filters

\* C9: the registry is written only during startup, before any request
\* handler has taken a step; no step of a request handler changes it; and
\* every request of one run reads the same registry contents.
C9_RegistryWrittenOnlyAtStartup ==
  /\ [](Cardinality(observed) <= 1)
  /\ [][/\ SCHEMA_CACHE' # SCHEMA_CACHE => (lifespan = "startup" /\ ~ HandlerHasRun)
        /\ (last_response' # last_response \/ inflight' # inflight \/ observed' # observed)
             => SCHEMA_CACHE' = SCHEMA_CACHE]_vars

\* Requests were answered and another is suspended, against a loaded registry.
C9_Witness ==
  /\ lifespan = "serving"
  /\ SCHEMA_CACHE # EmptyDict
  /\ last_response # None
  /\ last_response[1].endpoint = "get_tables"
  /\ inflight # EmptyBag
  /\ observed # {}

\* Every table of every schema load_schema goes through has its entry.
RegistryLoaded ==
  \A i \in DOMAIN schemas_to_load(db) :
     \A k \in DOMAIN db.tables[schemas_to_load(db)[i]] :
        clean_name(metadata_key(schemas_to_load(db)[i], db.tables[schemas_to_load(db)[i]][k]))
          \in DOMAIN SCHEMA_CACHE

\* C10: a schema load that fails part-way aborts startup: requests are never
\* served while the registry holds only part of the tables.
C10_FailedLoadAbortsStartup ==
  /\ (lifespan \in {"serving", "stopped"} \/ HandlerHasRun) => RegistryLoaded
  /\ lifespan = "startup_failed" => ~ HandlerHasRun

\* Reflection of the second schema raised after the tables of the first
\* were stored.
C10_Witness ==
  /\ lifespan = "startup_failed"
  /\ SCHEMA_CACHE # EmptyDict
  /\ ~ RegistryLoaded


\* ------------------------------------------------------------------------
\* Requests that interleave
\* ------------------------------------------------------------------------

\* The bodies a request gets when it runs alone: match_columns of the schema
\* in the registry and of the plan, turned into the response.
AloneBodies(table_name, plan) ==
  {AnalyzeColumnsResponse(to_dict(outcome.result[1])) :
     outcome \in {o \in match_columns(get_table_schema(table_name), plan) : o.raised = ""}}

AnalyzeAnswered(response) ==
  /\ response # None
  /\ response[1].endpoint = "analyze_columns"
  /\ response[1].status = 200

\* C11: analyze requests that interleave at the LLM call do not affect one
\* another.  Whenever an analyze request is answered with a match result,
\* whatever other requests are in flight, the body is one that
\* match_columns gives for the schema in the registry and the plan of this
\* request alone, the registry (the schema dict it was given) is left as it
\* was, and the other requests in flight are left as they were.
C11_InterleavedRequestsIndependent ==
  [][(last_response' # last_response /\ AnalyzeAnswered(last_response'))
       => /\ SCHEMA_CACHE' = SCHEMA_CACHE
          /\ last_response'[1].body[1] \in
                AloneBodies(last_response'[1].request.table_name, last_response'[1].llm_result[1])
          /\ \E r \in BagToSet(inflight) :
                /\ r.endpoint = "analyze_columns"
                /\ r.request = last_response'[1].request
                /\ r.table_schema = get_table_schema(r.request.table_name)
                /\ inflight' = inflight (-) SetToBag({r})]_vars

\* An analyze request was answered with a match result while another one
\* was suspended at its LLM call.
C11_Witness ==
  /\ AnalyzeAnswered(last_response)
  /\ \E r \in BagToSet(inflight) : r.endpoint = "analyze_columns"


\* ------------------------------------------------------------------------
\* Unknown tables
\* ------------------------------------------------------------------------

TableEndpoints == {"get_table_schema", "analyze_columns", "generate_report"}

UnknownTable(request) == request.table_name \notin DOMAIN SCHEMA_CACHE

\* C12: on the three endpoints that take a table name, a name that is not a
\* key of the registry is answered with 404, by a request that invoked no
\* collaborator (no LLM call, no query) and did not reach the validation of
\* its columns; no request for an unknown table is ever waiting for a
\* collaborator.
C12_UnknownTableNotFound ==
  /\ (last_response # None /\ last_response[1].endpoint \in TableEndpoints
         /\ UnknownTable(last_response[1].request))
        => /\ last_response[1].status = 404
           /\ last_response[1].calls = NoCalls
           /\ last_response[1].body = None
  /\ \A r \in BagToSet(inflight) :
        r.endpoint \in TableEndpoints => ~ UnknownTable(r.request)

\* A report was asked for an unknown table, with columns that no schema has
\* been looked up for, and was answered with 404.
C12_Witness ==
  /\ last_response # None
  /\ last_response[1].endpoint = "generate_report"
  /\ UnknownTable(last_response[1].request)
  /\ last_response[1].status = 404


\* ------------------------------------------------------------------------
\* Reports
\* ------------------------------------------------------------------------

\* The names of the columns the registry has for a table.
RegistryColumnNames(table_name) ==
  {SCHEMA_CACHE[table_name].columns[i].name : i \in DOMAIN SCHEMA_CACHE[table_name].columns}

InvalidColumns(request) == Range(request.columns) \ RegistryColumnNames(request.table_name)

\* the SELECT list of a query: the text between SELECT and FROM
SelectList(sql_query) ==
  SubSeq(sql_query, 2, (CHOOSE i \in DOMAIN sql_query : sql_query[i] = " FROM ") - 1)

\* C13: a report request for a known table with a column that the schema
\* of the table does not have is answered with 400 and does not invoke the
\* report executor; the executor is invoked, and a query executed, only with
\* columns that are all columns of the schema, which make its SELECT list.
C13_InvalidColumnsRejected ==
  /\ (last_response # None /\ last_response[1].endpoint = "generate_report"
         /\ ~ UnknownTable(last_response[1].request))
        => /\ InvalidColumns(last_response[1].request) # {}
                => (last_response[1].status = 400 /\ last_response[1].calls = NoCalls)
           /\ last_response[1].calls.generate_report > 0
                => InvalidColumns(last_response[1].request) = {}
  /\ \A r \in BagToSet(inflight) :
        r.endpoint = "generate_report"
          => /\ InvalidColumns(r.request) = {}
             /\ SelectList(r.query.sql_query) = join(COMMA_SPACE, r.request.columns)

\* A report with a column the table does not have was answered with 400.
C13_Witness ==
  /\ last_response # None
  /\ last_response[1].endpoint = "generate_report"
  /\ ~ UnknownTable(last_response[1].request)
  /\ InvalidColumns(last_response[1].request) # {}
  /\ last_response[1].status = 400


\* ------------------------------------------------------------------------
\* Failures of the collaborators
\* ------------------------------------------------------------------------

Collaborators == {"plan_columns", "match_columns", "generate_report", "save_admin_request"}

AtMostOnce(calls) == \A c \in Collaborators : calls[c] <= 1

\* C14: a failure of a collaborator ends the request with a 500 response
\* that carries an error and no result; no collaborator is invoked twice by
\* one request, answered or in flight; after the interpreter failed the
\* matcher was not invoked and no match result is returned.
C14_FailuresBecome500WithoutRetry ==
  /\ \A r \in BagToSet(inflight) : AtMostOnce(r.calls)
  /\ last_response # None
        => /\ AtMostOnce(last_response[1].calls)
           /\ last_response[1].failed # ""
                => /\ last_response[1].status = 500
                   /\ last_response[1].error # ""
                   /\ last_response[1].body = None
                   /\ last_response[1].calls[last_response[1].failed] = 1
           /\ last_response[1].failed = "plan_columns"
                => last_response[1].calls.match_columns = 0

\* The LLM call of an analyze request failed and the request was answered.
C14_Witness ==
  /\ last_response # None
  /\ last_response[1].endpoint = "analyze_columns"
  /\ last_response[1].failed = "plan_columns"
  /\ last_response[1].status = 500


\* ------------------------------------------------------------------------
\* Properties of the report executor
\* ------------------------------------------------------------------------

\* C15: the limit bound into an executed query is at most 1000 whatever the
\* request asks for: a limit above 1000 is replaced by 1000, and 100 is
\* bound when the request gives none.
C15_LimitAtMost1000 ==
  \A i \in DOMAIN executed :
     LET limit == executed[i].request.limit
         bound == executed[i].query.params[LIMIT_PARAM]
     IN  /\ bound <= 1000
         /\ (limit # None /\ limit[1] > 1000) => bound = 1000
         /\ limit = None => bound = 100
         /\ (limit # None /\ limit[1] # 0 /\ limit[1] <= 1000) => bound = limit[1]

\* A query was executed for a request that asked for 5000 rows.
C15_Witness ==
  /\ executed # <<>>
  /\ executed[1].request.limit = Some(5000)
  /\ executed[1].query.params[LIMIT_PARAM] = 1000

Digits == {"0", "1", "2", "3", "4", "5", "6", "7", "8", "9"}

\* C16: the SQL text does not depend on the values of the filters.  Two
\* calls that differ in the values of their filters only execute the same
\* text, and no value is written into the text of a query: the values reach
\* the database in the parameters.
C16_SqlTextIndependentOfValues ==
  /\ \A i \in DOMAIN executed, k \in DOMAIN executed :
        executed[i].query.sql_query = executed[k].query.sql_query
  /\ \A i \in DOMAIN executed :
        \A n \in DOMAIN executed[i].query.sql_query :
           executed[i].query.sql_query[n] \notin Digits

\* Two calls with other values of the filters, and so other parameters,
\* were made.
C16_Witness ==
  /\ Len(executed) = 2
  /\ executed[1].query.params # executed[2].query.params


\* The conditions a filters dict asks for, in its order: column, operator
\* and value of each scalar entry (an equality) and of each item of an
\* operator dict whose key is one of the six operators.
RECURSIVE ItemTerms(_, _)
ItemTerms(col, items) ==
  IF items = <<>> THEN <<>>
  ELSE (IF Head(items).operator \in SqlOperators
        THEN <<[col |-> col, operator |-> Head(items).operator, value |-> Head(items).filter_value]>>
        ELSE <<>>) \o ItemTerms(col, Tail(items))

RECURSIVE FilterTerms(_)
FilterTerms(filters) ==
  IF filters = <<>> THEN <<>>
  ELSE (IF Head(filters).is_dict
        THEN ItemTerms(Head(filters).col, Head(filters).items)
        ELSE <<[col |-> Head(filters).col, operator |-> EQ, value |-> Head(filters).value]>>)
       \o FilterTerms(Tail(filters))

\* The pieces of a text between the occurrences of a separator.
RECURSIVE Pieces(_, _)
Pieces(sql_text, separator) ==
  IF \A n \in DOMAIN sql_text : sql_text[n] # separator THEN <<sql_text>>
  ELSE LET n == CHOOSE n \in DOMAIN sql_text :
                   sql_text[n] = separator /\ \A k \in 1..(n - 1) : sql_text[k] # separator
       IN  <<SubSeq(sql_text, 1, n - 1)>> \o Pieces(SubSeq(sql_text, n + 1, Len(sql_text)), separator)

\* The conditions of the WHERE clause of a query, <<>> when it has none.
WhereConditions(sql_query) ==
  LET before_limit == Pieces(sql_query, " LIMIT :limit")[1]
      after_where == Pieces(before_limit, " WHERE ")
  IN  IF Len(after_where) = 1 THEN <<>> ELSE Pieces(after_where[2], " AND ")

\* The parameter a condition names: the text after ' :'.
ConditionParam(cond) == Pieces(cond, " :")[2]

\* C17: the WHERE clause of an executed query is the conditions the filters
\* ask for joined with AND: 'col = :p' for a scalar entry, 'col op :p' for
\* an entry {col: {op: v}} with one of the six operators; and the value
\* bound to the parameter p of each condition is the value of the entry the
\* condition stands for, whatever other entries and keys the filters hold.
C17_ConditionsBindTheirOwnValues ==
  \A i \in DOMAIN executed :
     LET filters == executed[i].request.filters
         terms == IF filters = None THEN <<>> ELSE FilterTerms(filters[1])
         conds == WhereConditions(executed[i].query.sql_query)
     IN  /\ Len(conds) = Len(terms)
         /\ \A k \in DOMAIN terms :
               /\ Pieces(conds[k], " :")[1] = terms[k].col \o <<" ">> \o terms[k].operator
               /\ ConditionParam(conds[k]) \in DOMAIN executed[i].query.params
               /\ executed[i].query.params[ConditionParam(conds[k])] = terms[k].value


\* ------------------------------------------------------------------------
\* Admin tickets
\* ------------------------------------------------------------------------

\* A register request leaves its await: the INSERT returned or raised.
RegisterAnswered ==
  \E r \in BagToSet(inflight) :
     r.endpoint = "register_admin_query" /\ inflight' = inflight (-) SetToBag({r})

TicketIds == {tickets[i].request_id : i \in DOMAIN tickets}

\* C18: a register request that succeeds appends one row with status
\* 'pending' to the ticket table and returns success with the id of that
\* row, which no earlier row has; one whose write fails is answered with
\* 500 and no success body; no step changes or removes a row that exists,
\* and the ids of the rows are distinct.
C18_TicketsAppendOnly ==
  /\ [](\A i \in DOMAIN tickets, k \in DOMAIN tickets :
           tickets[i].request_id = tickets[k].request_id => i = k)
  /\ [][/\ SubSeq(tickets', 1, Len(tickets)) = tickets
        /\ Len(tickets') >= Len(tickets)
        /\ ~ RegisterAnswered => tickets' = tickets
        /\ RegisterAnswered =>
              /\ last_response'[1].endpoint = "register_admin_query"
              /\ \/ /\ Len(tickets') = Len(tickets) + 1
                     /\ tickets'[Len(tickets')].status = "pending"
                     /\ tickets'[Len(tickets')].request_id \notin TicketIds
                     /\ last_response'[1].status = 200
                     /\ last_response'[1].body =
                          Some([success |-> TRUE, request_id |-> tickets'[Len(tickets')].request_id])
                 \/ /\ tickets' = tickets
                     /\ last_response'[1].status = 500
                     /\ last_response'[1].body = None]_vars

\* Two register requests succeeded, the second one last.
C18_Witness ==
  /\ Len(tickets) = 2
  /\ last_response # None
  /\ last_response[1].endpoint = "register_admin_query"
  /\ last_response[1].status = 200
  /\ last_response[1].body[1].request_id = tickets[2].request_id


\* ------------------------------------------------------------------------
\* Properties of the model factory
\* ------------------------------------------------------------------------

\* The key a name stands for when its case and the blanks around it are
\* ignored.
IgnoringCaseAndBlanks(provider_name) ==
  LET letters == SelectSeq(provider_name, LAMBDA c : c # " ")
  IN  [i \in DOMAIN letters |-> lower_char(letters[i])]

\* C19: ModelProvider looks the provider class up in the registry by the
\* name it is given, ignoring its case and the blanks around it, and
\* constructs that class only; when the name so read is not a key of the
\* registry it raises ValueError and constructs nothing.
C19_ModelProviderSelectsByName ==
  (provider_result # None /\ provider_result[1].call = "ModelProvider")
    => LET key == IgnoringCaseAndBlanks(provider_result[1].provider_name)
           outcome == provider_result[1].outcome
       IN  IF key \in DOMAIN PROVIDER_REGISTRY
           THEN /\ outcome.raised # "ValueError"
                /\ outcome.provider_class = Some(PROVIDER_REGISTRY[key])
           ELSE /\ outcome.raised = "ValueError"
                /\ outcome.constructed = FALSE
                /\ outcome.provider_class = None

\* ModelProvider(' groq ') constructed the provider registered as 'groq'.
C19_Witness ==
  /\ provider_result # None
  /\ provider_result[1].call = "ModelProvider"
  /\ provider_result[1].provider_name = <<" ", "g", "r", "o", "q", " ">>
  /\ provider_result[1].outcome.constructed
  /\ provider_result[1].outcome.provider_class = Some(PROVIDER_REGISTRY[groq])

\* C20: when register_provider(name, cls) has returned, ModelProvider and
\* get_provider_class called with the same name find cls; a class that does
\* not extend BaseProvider is rejected with ValueError and leaves the
\* registry as it was.
C20_RegisteredNameResolves ==
  (provider_result # None /\ provider_result[1].call = "register_provider")
    => LET name == provider_result[1].provider_name
           cls == provider_result[1].argument[1]
       IN  IF provider_result[1].outcome.raised = ""
           THEN /\ cls.extends_base
                /\ get_provider_class(name).raised = ""
                /\ get_provider_class(name).provider_class = Some(cls)
                /\ \A outcome \in ModelProvider(name) :
                      outcome.raised # "ValueError" /\ outcome.provider_class = Some(cls)
           ELSE /\ ~ cls.extends_base
                /\ provider_result[1].outcome.raised = "ValueError"
                /\ PROVIDER_REGISTRY = provider_result[1].registry_before


\* ------------------------------------------------------------------------
\* Properties of the recommendations
\* ------------------------------------------------------------------------

\* The optional columns of the plan that are columns of the schema, as the
\* plan lists them.
OptionalInSchema == SelectSeq(llm_output.optional_columns, LAMBDA c : c \in SchemaColumnNames)

\* C21: when no required column is missing the recommendations are the
\* 'all required columns are available' message, followed by one message
\* that lists the optional columns of the plan that are in the schema when
\* there is at least one, and nothing else.
C21_AllAvailableMessages ==
  \A r \in Returned :
     r.missing_columns = <<>> =>
       r.recommendations =
         <<[kind |-> "all_available"]>>
         \o (IF OptionalInSchema # <<>>
             THEN <<[kind |-> "optional_available", cols |-> OptionalInSchema]>>
             ELSE <<>>)

\* A call returned with nothing missing and with an optional column that is
\* in the schema.
C21_Witness ==
  \E r \in Returned :
     /\ r.missing_columns = <<>>
     /\ r.required_columns # <<>>
     /\ Len(r.recommendations) = 2


\* C22: when a required column is missing, the first recommendation gives
\* the number of missing columns, which is the length of missingColumns,
\* and their names; the second is the 'partial analysis possible' message
\* with the available columns when there are some, the 'no required columns
\* available' message when there are none; and only one message of these
\* two kinds is in the recommendations.
C22_MissingThenPartialOrNone ==
  \A r \in Returned :
     r.missing_columns # <<>> =>
       /\ Len(r.recommendations) >= 2
       /\ r.recommendations[1].kind = "missing"
       /\ r.recommendations[1].count = Len(r.missing_columns)
       /\ Len(r.recommendations[1].cols) = Len(r.missing_columns)
       /\ Range(r.recommendations[1].cols) = Range(r.missing_columns)
       /\ IF r.available_columns # <<>>
          THEN /\ r.recommendations[2].kind = "partial"
               /\ Len(r.recommendations[2].cols) = Len(r.available_columns)
               /\ Range(r.recommendations[2].cols) = Range(r.available_columns)
          ELSE r.recommendations[2].kind = "none_available"
       /\ Cardinality({i \in DOMAIN r.recommendations :
                         r.recommendations[i].kind \in {"partial", "none_available"}}) = 1

\* A call returned with a column missing and another one available.
C22_Witness ==
  \E r \in Returned :
     /\ r.missing_columns # <<>>
     /\ r.available_columns # <<>>
     /\ r.recommendations[2].kind = "partial"


\* The tokens of a name: the longest runs of its lower-cased characters
\* that hold no underscore and no blank.
Separators == {"_", " "}

Tokens(column_name) ==
  LET l == lower(column_name)
      starts == {i \in DOMAIN l : l[i] \notin Separators /\ (i = 1 \/ l[i - 1] \in Separators)}
      end(i) == CHOOSE k \in i..Len(l) :
                   /\ \A n \in i..k : l[n] \notin Separators
                   /\ (k = Len(l) \/ l[k + 1] \in Separators)
  IN  {SubSeq(l, i, end(i)) : i \in starts}

Occurs(token, in_text) ==
  \E k \in 0..(Len(in_text) - Len(token)) : SubSeq(in_text, k + 1, k + Len(token)) = token

\* A schema column is a suggestion for a missing name.
Suggested(missing_name, column_name) ==
  \E token \in Tokens(missing_name) : Len(token) > 2 /\ Occurs(token, lower(column_name))

\* The suggestion messages of a result for a missing column.
SuggestionsFor(r, missing_name) ==
  {i \in DOMAIN r.recommendations :
     r.recommendations[i].kind = "suggest" /\ r.recommendations[i].missing = missing_name}

NoRepeat(list) == \A i \in DOMAIN list, k \in DOMAIN list : list[i] = list[k] => i = k

Min(x, y) == IF x < y THEN x ELSE y

\* C23: a schema column is suggested for a missing name exactly when a
\* token of the missing name, longer than 2 characters, occurs in the
\* lower-cased name of the column, and no column is suggested twice.  The
\* suggestions are read off the message of the missing column, which names
\* the first three of them and is left out when there is none.  So
\* 'created_at' gets no suggestion in {customer_id, create_date, email},
\* and 'create_date' is offered 'created_date_value'.
C23_SuggestedIffTokenOccurs ==
  /\ \A r \in Returned :
        \A missing_name \in Range(r.missing_columns) :
           LET expected == {c \in SchemaColumnNames : Suggested(missing_name, c)}
           IN  IF expected = {}
               THEN SuggestionsFor(r, missing_name) = {}
               ELSE /\ Cardinality(SuggestionsFor(r, missing_name)) = 1
                    /\ \A i \in SuggestionsFor(r, missing_name) :
                          /\ NoRepeat(r.recommendations[i].cols)
                          /\ Range(r.recommendations[i].cols) \subseteq expected
                          /\ Len(r.recommendations[i].cols) = Min(3, Cardinality(expected))
  /\ (table_schema = Some(TableDict(<<customer_id, create_date, email>>))
        /\ llm_output.required_columns = <<created_at>>)
       => \A r \in Returned : SuggestionsFor(r, created_at) = {}
  /\ (table_schema = Some(TableDict(<<created_date_value>>))
        /\ llm_output.required_columns = <<create_date>>)
       => \A r \in Returned :
             \E i \in SuggestionsFor(r, create_date) :
                r.recommendations[i].cols = <<created_date_value>>

\* 'create_date' was looked for in a table that holds 'created_date_value'.
C23_Witness ==
  /\ table_schema = Some(TableDict(<<created_date_value>>))
  /\ llm_output.required_columns = <<create_date>>
  /\ \E r \in Returned : SuggestionsFor(r, create_date) # {}

\* ------------------------------------------------------------------------
\* Order of the suggestions (C24, C25)
\* ------------------------------------------------------------------------

\* The missing columns the suggestion messages of a result are for, in the
\* order of the messages.
RECURSIVE SuggestionOrder(_)
SuggestionOrder(recommendations) ==
  IF recommendations = <<>> THEN <<>>
  ELSE (IF Head(recommendations).kind = "suggest"
        THEN <<Head(recommendations).missing>> ELSE <<>>)
       \o SuggestionOrder(Tail(recommendations))

\* The elements of a list that satisfy a test given as a set, in the order
\* of the list.
RECURSIVE Keep(_, _)
Keep(list, kept) ==
  IF list = <<>> THEN <<>>
  ELSE (IF Head(list) \in kept THEN <<Head(list)>> ELSE <<>>) \o Keep(Tail(list), kept)

\* The names of the 'columns' list of the schema argument, in its order.
SchemaColumnList ==
  IF WellFormedSchema /\ "columns" \in DOMAIN table_schema[1]
  THEN [i \in DOMAIN table_schema[1].columns |-> table_schema[1].columns[i].name]
  ELSE <<>>

\* C24: the suggestion messages of a result are one for each missing column
\* that has a suggestion, in the order of the missingColumns list of the
\* result, and each names at most 3 columns.
C24_SuggestionsInMissingOrder ==
  WellFormedSchema =>
    \A r \in Returned :
       /\ SuggestionOrder(r.recommendations)
            = Keep(r.missing_columns,
                   {missing_name \in Range(r.missing_columns) :
                      \E c \in SchemaColumnNames : Suggested(missing_name, c)})
       /\ \A i \in DOMAIN r.recommendations :
             r.recommendations[i].kind = "suggest" => Len(r.recommendations[i].cols) <= 3

\* C25: the columns named by a suggestion message are the first 3, in the
\* order of the 'columns' list of the schema, of the columns suggested for
\* its missing column.
C25_SuggestionsInSchemaOrder ==
  WellFormedSchema =>
    \A r \in Returned :
       \A i \in DOMAIN r.recommendations :
          r.recommendations[i].kind = "suggest" =>
             r.recommendations[i].cols
               = first_three(Keep(SchemaColumnList,
                                  {c \in SchemaColumnNames :
                                     Suggested(r.recommendations[i].missing, c)}))

\* ------------------------------------------------------------------------
\* The generic message (C26)
\* ------------------------------------------------------------------------

\* The positions of the messages of one kind in the recommendations.
MessagesOfKind(r, kind) == {i \in DOMAIN r.recommendations : r.recommendations[i].kind = kind}

\* C26: when columns are missing, the message that advises to add the
\* columns to the schema is there, as the last message and only there,
\* exactly when no required column is available and no suggestion message
\* was produced.  So for the schema {a, b} and the required column
\* 'zzz_unmatched' the messages end with the no-columns message and the
\* generic message, with no suggestion.
C26_GenericMessageLast ==
  /\ \A r \in Returned :
        r.missing_columns # <<>> =>
           /\ MessagesOfKind(r, "add_columns") \subseteq {Len(r.recommendations)}
           /\ MessagesOfKind(r, "add_columns") # {}
                <=> (r.available_columns = <<>> /\ MessagesOfKind(r, "suggest") = {})
  /\ (table_schema = Some(TableDict(<<column_a, column_b>>))
        /\ llm_output.required_columns = <<zzz_unmatched>>)
       => \A r \in Returned :
             /\ Len(r.recommendations) = 3
             /\ r.recommendations[2].kind = "none_available"
             /\ r.recommendations[3].kind = "add_columns"

\* ------------------------------------------------------------------------
\* The example of _find_similar_columns (C27)
\* ------------------------------------------------------------------------

\* C27: for the missing column 'created_at' and the columns create_date,
\* updated_at, name, _find_similar_columns returns create_date and
\* updated_at, and the result of match_columns offers them for 'created_at'.
C27_DocstringExample ==
  (table_schema = Some(TableDict(<<create_date, updated_at, name_column>>))
     /\ llm_output.required_columns = <<created_at>>)
    => /\ _find_similar_columns(created_at, SchemaColumnList) = <<create_date, updated_at>>
       /\ \A r \in Returned :
             \E i \in SuggestionsFor(r, created_at) :
                Range(r.recommendations[i].cols) = {create_date, updated_at}

\* ------------------------------------------------------------------------
\* The registry after load_schema (C28)
\* ------------------------------------------------------------------------

\* C28: once load_schema has returned, every reflected table, of every
\* database schema that was loaded, is found in the registry under its
\* table name, with its own columns.
C28_EveryReflectedTableRetrievable ==
  load_schema_returned =>
    \A i \in DOMAIN schemas_to_load(db) :
       \A table \in Range(db.tables[schemas_to_load(db)[i]]) :
          /\ get_table_schema(table.name) # None
          /\ get_table_schema(table.name)[1].columns = table_to_dict(table).columns

\* ------------------------------------------------------------------------
\* The columns of an executed query (C29)
\* ------------------------------------------------------------------------

\* The column a condition of the WHERE clause compares: the text before the
\* operator.
ConditionColumn(cond) == Pieces(cond, " ")[1]

\* The columns the filters of a report request name.
FilterColumns(request) ==
  IF request.filters = None THEN {}
  ELSE {request.filters[1][i].col : i \in DOMAIN request.filters[1]}

\* C29: the columns of the SELECT list and of the WHERE clause of a query
\* that is executed are columns of the table's schema in the registry, and a
\* report request whose filters name another column does not invoke the
\* report executor.
C29_QueryColumnsInSchema ==
  /\ \A r \in BagToSet(inflight) :
        r.endpoint = "generate_report"
          => /\ SelectList(r.query.sql_query) = join(COMMA_SPACE, r.request.columns)
             /\ Range(r.request.columns) \subseteq RegistryColumnNames(r.request.table_name)
             /\ \A i \in DOMAIN WhereConditions(r.query.sql_query) :
                   ConditionColumn(WhereConditions(r.query.sql_query)[i])
                     \in RegistryColumnNames(r.request.table_name)
  /\ (last_response # None /\ last_response[1].endpoint = "generate_report"
         /\ last_response[1].calls.generate_report > 0)
        => FilterColumns(last_response[1].request)
             \subseteq RegistryColumnNames(last_response[1].request.table_name)

\* ------------------------------------------------------------------------
\* Filters without a condition (C30)
\* ------------------------------------------------------------------------

\* C30: every entry of the filters of an executed query has at least one
\* condition on its column in the WHERE clause.
C30_EveryFilterHasACondition ==
  \A i \in DOMAIN executed :
     executed[i].request.filters # None =>
        \A k \in DOMAIN executed[i].request.filters[1] :
           \E n \in DOMAIN WhereConditions(executed[i].query.sql_query) :
              ConditionColumn(WhereConditions(executed[i].query.sql_query)[n])
                = executed[i].request.filters[1][k].col

====
